---- MODULE Spec2Model ----
(***************************************************************************)
(* Verification model of boxtopbaseball:                                   *)
(*   - bp_cross_check.py   the validator (record loop, check_stats,        *)
(*                         clear_stats)                                    *)
(*   - bp_create_db.py     the loader (record loop, side resolution)       *)
(*   - SQLA/bp_splits_db.py the aggregator (sums, counters, derived stats) *)
(* Each program is a state machine over its own module-level variables;    *)
(* one action per record handler / loop step.                              *)
(***************************************************************************)
EXTENDS Integers, Sequences, FiniteSets, Bags, TLC

\* ---------------------------------------------------------------- bounds
MaxStat  == 1      \* largest count a generated numeric field carries
MaxLines == 2      \* records per game (validator), per run (loader), rows per player
MaxGames == 2      \* version records per stream

\* ------------------------------------------------------ program constants
ROAD_ID == 0
HOME_ID == 1
MISSING == -1

Sides == {"road", "home"}
UNDEF == "<unbound>"           \* a module-level name that was never assigned
Teams == {"BOS", "NYY"}
PlayerIds == {"a", "c"}

\* player_info as loaded from the roster files: team -> ids.  player_info is
\* a defaultdict(dict): an unknown team (also "") reads as the empty dict.
player_info(team) ==
    IF team = "BOS" THEN {"a"} ELSE IF team = "NYY" THEN {"c"} ELSE {}

\* A numeric field of a record as it stands in the file: an integer literal,
\* or text int() cannot parse.
Lit(n) == [ok |-> TRUE, n |-> n]
BadLit == [ok |-> FALSE, n |-> 0]

StatsKeys    == {"AB", "Runs", "Hits", "RBI", "Putouts", "Assists", "Errors",
                 "Walks", "Strikeouts"}
PitchingKeys == {"Outs", "Runs", "Hits", "Walks", "Strikeouts"}
TeamKeys     == {"AB", "Runs", "Hits", "Putouts", "Assists", "Errors"}
BlineKeys    == {"AB", "Runs", "Hits", "RBI", "Walks", "Strikeouts"}
DlineKeys    == {"Putouts", "Assists", "Errors"}

VARIABLES
    \* --- bp_cross_check.py module-level state
    s_team_names, s_date_of_game, s_game_number_this_date, s_usedh,
    s_wp_id, s_lp_id,
    batting_order_list, batting_order_numbers, players_in_batting_order,
    list_of_pitchers, list_of_pinch_hitters, list_of_pinch_runners,
    pos_list, stats_list, pitching_stats_list, team_stats_list,
    linescore_total, linescore_innings,
    number_of_box_scores_scanned,
    cc_pc,          \* "reading" | "done" | "aborted" (uncaught exception)
    printed,        \* what the latest step wrote to stdout
    checks_run,     \* number of calls of check_stats so far
    \* --- history of the input, kept for stating the properties
    game,           \* the records of the game being accumulated
    sealed,         \* the game the latest step validated (or NoGame)
    focus           \* the scenario the generated records follow

hdr_vars == <<s_team_names, s_date_of_game, s_game_number_this_date, s_usedh,
              s_wp_id, s_lp_id>>
acc_vars == <<batting_order_list, batting_order_numbers,
              players_in_batting_order, list_of_pitchers,
              list_of_pinch_hitters, list_of_pinch_runners, pos_list,
              stats_list, pitching_stats_list, team_stats_list,
              linescore_total, linescore_innings>>
cc_vars == <<hdr_vars, acc_vars, number_of_box_scores_scanned, cc_pc, printed,
             checks_run, game, sealed, focus>>

\* ------------------------------------------------------------ diagnostics
Diag(kind, tm, what, a, b) ==
    [kind |-> kind, tm |-> tm, what |-> what, a |-> a, b |-> b]

\* ---------------------------------------------------------- input history
NoGame == [none |-> TRUE]
\* records: some record followed the version record; infos: the types of
\* its info records; lines: the number of stat, line and event records since
\* it; contrib: per side and stat, the values of the player lines in file
\* order; pitched: the same for the values of the pitcher lines; reported: per
\* side, its teamstat records; scored: per side, its latest line record
EmptyGame ==
    [records  |-> FALSE,
     infos    |-> {},
     lines    |-> 0,
     contrib  |-> [tm \in Sides |-> [k \in StatsKeys |-> << >>]],
     pitched  |-> [tm \in Sides |-> [k \in PitchingKeys |-> << >>]],
     reported |-> [tm \in Sides |-> << >>],
     scored   |-> [tm \in Sides |-> << >>]]

Consumed(g, isline) ==
    [g EXCEPT !.records = TRUE, !.lines = IF isline THEN @ + 1 ELSE @]

\* a player line's value v for stat k of side tm joins the history
Contribute(g, tm, ks, val(_)) ==
    [g EXCEPT !.contrib[tm] =
        [k \in StatsKeys |-> IF k \in ks THEN Append(@[k], val(k)) ELSE @[k]]]

\* a pitcher line's values join the history
Pitched(g, tm, f) ==
    [g EXCEPT !.pitched[tm] = [k \in PitchingKeys |-> Append(@[k], f[k].n)]]

RECURSIVE SeqSum(_)
SeqSum(s) == IF s = << >> THEN 0 ELSE Head(s) + SeqSum(Tail(s))

\* ------------------------------------------------------------ clear_stats
EmptyCounts == [tm \in Sides |-> [p \in PlayerIds |-> 0]]
InitStats == [tm \in Sides |-> [k \in StatsKeys |-> 0]]
InitPitchingStats == [tm \in Sides |-> [k \in PitchingKeys |-> 0]]
InitTeamStats == [tm \in Sides |-> [k \in TeamKeys |-> 0]]
InitBattingOrderList == [tm \in Sides |-> [i \in 0..9 |-> FALSE]]
InitPosList == [tm \in Sides |-> [i \in 0..14 |-> FALSE]]

\* linescore_innings["road"] is assigned twice, "home" never
clear_linescore_innings(li) == [li EXCEPT !["road"] = 0]

\* The assignments to s_date_of_game, s_game_number_this_date and s_usedh in
\* clear_stats bind function locals (no global statement); s_wp_id and s_lp_id
\* are not mentioned.  The module-level names keep their values.
clear_stats ==
    /\ s_team_names' = [tm \in Sides |-> ""]
    /\ UNCHANGED <<s_date_of_game, s_game_number_this_date, s_usedh,
                   s_wp_id, s_lp_id>>
    /\ batting_order_list' = InitBattingOrderList
    /\ batting_order_numbers' = [tm \in Sides |-> << >>]
    /\ players_in_batting_order' = EmptyCounts
    /\ list_of_pitchers' = EmptyCounts
    /\ list_of_pinch_hitters' = EmptyCounts
    /\ list_of_pinch_runners' = [tm \in Sides |-> << >>]
    /\ pos_list' = InitPosList
    /\ stats_list' = InitStats
    /\ pitching_stats_list' = InitPitchingStats
    /\ team_stats_list' = InitTeamStats
    /\ linescore_total' = [tm \in Sides |-> 0]
    /\ linescore_innings' = clear_linescore_innings(linescore_innings)

\* --------------------------------------------- conditional accumulation
\* a variant with "=" for "+=" in the else branch: the last value, not the sum
update_stats_list_overwriting(d, tm, category, number) ==
    [d EXCEPT ![tm][category] = IF number = -1 THEN -1 ELSE number]

update_stats_list_conditionally(d, tm, category, number) ==
    [d EXCEPT ![tm][category] = IF number = -1 THEN -1 ELSE @ + number]

update_pitching_stats_list_conditionally(d, tm, category, number) ==
    [d EXCEPT ![tm][category] = IF number = -1 THEN -1 ELSE @ + number]

update_team_stats_list_conditionally(d, tm, category, number) ==
    [d EXCEPT ![tm][category] = IF number = -1 THEN -1 ELSE @ + number]

\* side -> "road" / "home" (every record handler): anything but 0 is "home"
Lookup(side) == IF side = ROAD_ID THEN "road" ELSE "home"
Other(tm) == IF tm = "road" THEN "home" ELSE "road"


\* ------------------------------------------------------------ dictionaries
\* id -> count dictionaries are functions on PlayerIds, 0 meaning "no key"
InDict(d, p) == p \in DOMAIN d /\ d[p] > 0
Keys(d) == {p \in DOMAIN d : d[p] > 0}
Bump(d, tm, p) == [d EXCEPT ![tm][p] = @ + 1]

\* list_of_pinch_runners[tm] keeps the ids in the order the prline records
\* inserted them (a dict iterates in insertion order): one entry per record
SeqCount(s, p) == Cardinality({i \in 1..Len(s) : s[i] = p})
SeqKeys(s) == {s[i] : i \in 1..Len(s)}
FirstIndex(s, p) == CHOOSE i \in 1..Len(s) : s[i] = p /\ \A j \in 1..(i-1) : s[j] # p

\* int(x / d) for d > 0: float division truncated toward zero
TruncDiv(x, d) == IF x >= 0 THEN x \div d ELSE -((-x) \div d)
\* int((x / 3) + 1) for x not a multiple of 3
TruncDiv3Plus1(x) == LET q == x \div 3 IN IF q + 1 >= 0 THEN q + 1 ELSE q + 2

\* ------------------------------------------------------------ check_stats
RosterErrors ==
    UNION {
      {Diag("ROSTER_PITCHER", tm, p, 0, 0) : p \in
          {q \in Keys(list_of_pitchers[tm]) : q \notin player_info(s_team_names[tm])}}
      \cup
      {Diag("ROSTER_BATTER", tm, p, 0, 0) : p \in
          {q \in Keys(players_in_batting_order[tm]) : q \notin player_info(s_team_names[tm])}}
      \cup
      {Diag("ROSTER_PH", tm, p, 0, 0) : p \in
          {q \in Keys(list_of_pinch_hitters[tm]) : q \notin player_info(s_team_names[tm])}}
      \cup
      {Diag("ROSTER_PR", tm, p, 0, 0) : p \in
          {q \in SeqKeys(list_of_pinch_runners[tm]) : q \notin player_info(s_team_names[tm])}}
      : tm \in Sides }

\* "for stat in team_stats_list[tm]": only the keys clear_stats creates
TeamMismatches ==
    UNION { {Diag("MISMATCH_TEAM", tm, stat, stats_list[tm][stat], team_stats_list[tm][stat]) :
               stat \in {k \in DOMAIN team_stats_list[tm] :
                           /\ team_stats_list[tm][k] # stats_list[tm][k]
                           /\ stats_list[tm][k] # -1}}
            : tm \in Sides }

WinningSide ==
    IF team_stats_list["road"]["Runs"] > team_stats_list["home"]["Runs"] THEN "road"
    ELSE IF team_stats_list["home"]["Runs"] > team_stats_list["road"]["Runs"] THEN "home"
    ELSE "none"

\* s_wp_id / s_lp_id are bound only by an info,wp / info,lp record: reading an
\* unbound name raises NameError
WpLpRaises == WinningSide # "none" /\ (s_wp_id = UNDEF \/ s_lp_id = UNDEF)

WpLpErrors ==
    IF WinningSide = "none" \/ s_wp_id = UNDEF THEN {}
    ELSE (IF ~InDict(list_of_pitchers[WinningSide], s_wp_id)
          THEN {Diag("WP_NOT_FOUND", WinningSide, s_wp_id, 0, 0)} ELSE {})
         \cup
         (IF s_lp_id # UNDEF /\ ~InDict(list_of_pitchers[Other(WinningSide)], s_lp_id)
          THEN {Diag("LP_NOT_FOUND", Other(WinningSide), s_lp_id, 0, 0)} ELSE {})

PitcherMismatches ==
    UNION { {Diag("MISMATCH_PITCHERS", tm, stat, stats_list[tm][stat],
                  pitching_stats_list[Other(tm)][stat]) :
               stat \in {k \in {"Runs", "Hits"} :
                           /\ pitching_stats_list[Other(tm)][k] # stats_list[tm][k]
                           /\ stats_list[tm][k] # -1}}
            : tm \in Sides }

\* a variant that lets the shorter home line pass on a tie as well
linescore_length_ok_or_tied ==
    \/ linescore_innings["road"] = linescore_innings["home"]
    \/ /\ linescore_innings["road"] = linescore_innings["home"] + 1
       /\ team_stats_list["home"]["Runs"] >= team_stats_list["road"]["Runs"]

linescore_length_ok ==
    \/ linescore_innings["road"] = linescore_innings["home"]
    \/ /\ linescore_innings["road"] = linescore_innings["home"] + 1
       /\ team_stats_list["home"]["Runs"] > team_stats_list["road"]["Runs"]

LinescoreLength ==
    IF linescore_length_ok THEN {}
    ELSE {Diag("MISMATCH_LINESCORE_LENGTH", "", "", linescore_innings["road"],
               linescore_innings["home"])}

\* lines 238-239: the line score's runs against the reported team runs
\* a variant that compares with the runs summed over the batter lines
LinescoreRunsVsBatters(tm) ==
    IF linescore_total[tm] # stats_list[tm]["Runs"]
    THEN {Diag("MISMATCH_LINESCORE_RUNS", tm, "", linescore_total[tm],
               stats_list[tm]["Runs"])} ELSE {}

LinescoreRuns(tm) ==
    IF linescore_total[tm] # team_stats_list[tm]["Runs"]
    THEN {Diag("MISMATCH_LINESCORE_RUNS", tm, "", linescore_total[tm],
               team_stats_list[tm]["Runs"])} ELSE {}

\* lines 251-261: the innings of the line score against the outs of the
\* opposing pitchers
\* a variant that reports whenever innings and outs / 3 differ
InningsVsOutsOnly(tm) ==
    LET outs == pitching_stats_list[Other(tm)]["Outs"] IN
    IF outs % 3 = 0
    THEN IF linescore_innings[tm] # TruncDiv(outs, 3)
         THEN {Diag("MISMATCH_INNINGS_OUTS", tm, "", linescore_innings[tm], outs)}
         ELSE {}
    ELSE IF linescore_innings[tm] # TruncDiv3Plus1(outs)
         THEN {Diag("MISMATCH_INNINGS_OUTS_PARTIAL", tm, "", linescore_innings[tm], outs)}
         ELSE {}

InningsVsOuts(tm) ==
    LET outs == pitching_stats_list[Other(tm)]["Outs"] IN
    IF outs % 3 = 0
    THEN IF /\ linescore_innings[tm] # TruncDiv(outs, 3)
            /\ team_stats_list[Other(tm)]["Putouts"] # outs
         THEN {Diag("MISMATCH_INNINGS_OUTS", tm, "", linescore_innings[tm], outs)}
         ELSE {}
    ELSE IF linescore_innings[tm] # TruncDiv3Plus1(outs)
         THEN {Diag("MISMATCH_INNINGS_OUTS_PARTIAL", tm, "", linescore_innings[tm], outs)}
         ELSE {}

\* lines 237-261, one pass of the loop
LinescoreChecks(tm) ==
    LinescoreRuns(tm)
    \cup
    (IF stats_list[tm]["Runs"] # -1 /\ stats_list[tm]["RBI"] > stats_list[tm]["Runs"]
     THEN {Diag("MISMATCH_RBI_RUNS", tm, "", stats_list[tm]["RBI"],
                stats_list[tm]["Runs"])} ELSE {})
    \cup InningsVsOuts(tm)

\* a variant that leaves the numbers in file order
NumbersInFileOrder(tm) == batting_order_numbers[tm]

SortedNumbers(tm) == SortSeq(batting_order_numbers[tm], LAMBDA x, y : x < y)

\* lines 285-298; the diagnostic carries the index of the value in the
\* sorted list so that repeated values stay distinct reports
BattingSequence(tm) ==
    LET s == SortedNumbers(tm)
        prev(i) == IF i = 1 THEN 0 ELSE s[i-1]
    IN  {Diag("INVALID_BATTING_ORDER_POSITION", tm, ToString(i), s[i], 0) :
            i \in {j \in 1..Len(s) : s[j] < 100 \/ s[j] >= 1000}}
        \cup
        {Diag("UNEXPECTED_BATTING_ORDER_SEQUENCE", tm, ToString(i), prev(i), s[i]) :
            i \in {j \in 1..Len(s) :
                     /\ ~(s[j] < 100 \/ s[j] >= 1000)
                     /\ s[j] # prev(j) + 1
                     /\ s[j] # (TruncDiv(prev(j), 100) * 100) + 100}}

\* the PR loop prints list_of_pitchers[tm][pid]: KeyError when that pinch
\* runner is not also a pitcher of the side
PRRaisesAt(tm, p) ==
    /\ SeqCount(list_of_pinch_runners[tm], p) > 1
    /\ ~InDict(list_of_pitchers[tm], p)
PRRaises(tm) == \E p \in SeqKeys(list_of_pinch_runners[tm]) : PRRaisesAt(tm, p)

Duplicates(tm) ==
    LET prs == list_of_pinch_runners[tm]
        reached(p) == \A q \in SeqKeys(prs) :
                         FirstIndex(prs, q) < FirstIndex(prs, p) => ~PRRaisesAt(tm, q)
    IN
    {Diag("BATTER_MORE_THAN_ONCE", tm, p, players_in_batting_order[tm][p], 0) :
        p \in {q \in Keys(players_in_batting_order[tm]) : players_in_batting_order[tm][q] > 1}}
    \cup
    {Diag("PITCHER_MORE_THAN_ONCE", tm, p, list_of_pitchers[tm][p], 0) :
        p \in {q \in Keys(list_of_pitchers[tm]) : list_of_pitchers[tm][q] > 1}}
    \cup
    {Diag("PH_MORE_THAN_ONCE", tm, p, list_of_pinch_hitters[tm][p], 0) :
        p \in {q \in Keys(list_of_pinch_hitters[tm]) : list_of_pinch_hitters[tm][q] > 1}}
    \cup
    {Diag("PH_ALSO_PR", tm, p, list_of_pinch_hitters[tm][p], 0) :
        p \in {q \in Keys(list_of_pinch_hitters[tm]) : q \in SeqKeys(prs)}}
    \cup
    {Diag("PR_MORE_THAN_ONCE", tm, p, list_of_pitchers[tm][p], 0) :
        p \in {q \in SeqKeys(prs) :
                 SeqCount(prs, q) > 1 /\ ~PRRaisesAt(tm, q) /\ reached(q)}}

\* lines 264-318, one pass of the loop
OrderChecks(tm) ==
    LET require_pos_max == IF s_usedh = "false" THEN 9 ELSE 10 IN
    {Diag("MISSING_BATTING_ORDER", tm, "", pos, 0) :
        pos \in {i \in 1..9 : ~batting_order_list[tm][i]}}
    \cup
    {Diag("MISSING_DEFENSIVE_POSITION", tm, "", pos, 0) :
        pos \in {i \in 1..require_pos_max : ~pos_list[tm][i]}}
    \cup BattingSequence(tm)
    \cup Duplicates(tm)

CheckStatsRaises == WpLpRaises \/ PRRaises("road") \/ PRRaises("home")

CheckStatsException == IF WpLpRaises THEN "NameError" ELSE "KeyError"

\* everything check_stats prints, up to the statement that raises (if any)
CheckStatsOutput ==
    RosterErrors \cup TeamMismatches \cup WpLpErrors \cup
    (IF WpLpRaises THEN {}
     ELSE PitcherMismatches \cup LinescoreLength
          \cup LinescoreChecks("road") \cup LinescoreChecks("home")
          \cup OrderChecks("road")
          \cup (IF PRRaises("road") THEN {} ELSE OrderChecks("home")))

\* check_stats sorts batting_order_numbers in place (when it gets that far)
SortedByCheck ==
    IF WpLpRaises THEN batting_order_numbers
    ELSE [tm \in Sides |->
            IF tm = "home" /\ PRRaises("road") THEN batting_order_numbers[tm]
            ELSE SortedNumbers(tm)]

\* the game check_stats is looking at, for the history
Snapshot ==
    [none |-> FALSE, game |-> game, stats |-> stats_list, team |-> team_stats_list,
     pitching |-> pitching_stats_list,
     total |-> linescore_total, innings |-> linescore_innings,
     numbers |-> batting_order_numbers,
     batters |-> players_in_batting_order, pitchers |-> list_of_pitchers,
     pinch_hitters |-> list_of_pinch_hitters,
     pinch_runners |-> list_of_pinch_runners,
     names |-> s_team_names, wp |-> s_wp_id, lp |-> s_lp_id,
     positions |-> pos_list,
     raised |-> CheckStatsRaises]


\* ------------------------------------------------------------ main loop
\* an uncaught exception ends the run; what the handler had already changed
\* is never read again
Traceback(exc) == Diag("TRACEBACK", "", exc, 0, 0)

Abort(exc) ==
    /\ cc_pc' = "aborted"
    /\ printed' = {Traceback(exc)}
    /\ sealed' = NoGame
    /\ UNCHANGED <<hdr_vars, acc_vars, number_of_box_scores_scanned, checks_run,
                   game, focus>>

\* list index as Python resolves it: negative indexes count from the end
ListIndex(i, len) == IF i >= 0 THEN i ELSE i + len

\* stat,bline,id,side,pos,seq,ab,r,h,2b,3b,hr,rbi,sh,sf,hbp,bb,ibb,k,...
\* f: the numeric fields the handler reads, as literals
StatBline(id, side, pos, seq, f) ==
    LET lookup == Lookup(side)
        idx == ListIndex(pos, 10)
        unparsed == \E k \in DOMAIN f : ~f[k].ok
        ab == f["AB"].n
        h == f["Hits"].n
        doubles == IF f["2B"].n = -1 THEN 0 ELSE f["2B"].n
        triples == IF f["3B"].n = -1 THEN 0 ELSE f["3B"].n
        homeruns == IF f["HR"].n = -1 THEN 0 ELSE f["HR"].n
        xbh == doubles + triples + homeruns > h
        hab == h > ab
        \* the two ERROR prints format player_info[s_team_names[lookup]][id]
        keyerror == (xbh \/ hab) /\ id \notin player_info(s_team_names[lookup])
        s1 == update_stats_list_conditionally(stats_list, lookup, "AB", ab)
        s2 == update_stats_list_conditionally(s1, lookup, "Runs", f["Runs"].n)
        s3 == update_stats_list_conditionally(s2, lookup, "Hits", h)
        s4 == update_stats_list_conditionally(s3, lookup, "RBI", f["RBI"].n)
        s5 == update_stats_list_conditionally(s4, lookup, "Walks", f["Walks"].n)
        s6 == update_stats_list_conditionally(s5, lookup, "Strikeouts", f["Strikeouts"].n)
    IN
    /\ cc_pc = "reading"
    /\ IF idx \notin 0..9 \/ unparsed \/ keyerror
       THEN Abort(IF idx \notin 0..9 THEN "IndexError"
                  ELSE IF unparsed THEN "ValueError" ELSE "KeyError")
       ELSE
       /\ batting_order_list' = [batting_order_list EXCEPT ![lookup][idx] = TRUE]
       /\ batting_order_numbers' =
             [batting_order_numbers EXCEPT ![lookup] = Append(@, (pos * 100) + seq)]
       /\ players_in_batting_order' = Bump(players_in_batting_order, lookup, id)
       /\ stats_list' = s6
       /\ printed' =
             (IF xbh THEN {Diag("ERROR_XBH_GT_HITS", lookup, id,
                                doubles + triples + homeruns, h)} ELSE {})
             \cup (IF hab THEN {Diag("ERROR_HITS_GT_AB", lookup, id, h, ab)} ELSE {})
       /\ game' = Contribute(Consumed(game, TRUE), lookup, BlineKeys, LAMBDA k : f[k].n)
       /\ sealed' = NoGame
       /\ UNCHANGED <<hdr_vars, list_of_pitchers, list_of_pinch_hitters,
                      list_of_pinch_runners, pos_list, pitching_stats_list,
                      team_stats_list, linescore_total, linescore_innings,
                      number_of_box_scores_scanned, cc_pc, checks_run, focus>>

\* stat,dline,id,side,seq,pos,if*3,po,a,e,dp,tp,pb
StatDline(id, side, pos, f) ==
    LET lookup == Lookup(side)
        idx == ListIndex(pos, 15)
        unparsed == \E k \in DOMAIN f : ~f[k].ok
        s1 == update_stats_list_conditionally(stats_list, lookup, "Putouts", f["Putouts"].n)
        s2 == update_stats_list_conditionally(s1, lookup, "Assists", f["Assists"].n)
        s3 == update_stats_list_conditionally(s2, lookup, "Errors", f["Errors"].n)
    IN
    /\ cc_pc = "reading"
    /\ IF idx \notin 0..14 \/ unparsed
       THEN Abort(IF idx \notin 0..14 THEN "IndexError" ELSE "ValueError")
       ELSE
       /\ pos_list' = [pos_list EXCEPT ![lookup][idx] = TRUE]
       /\ stats_list' = s3
       /\ printed' = {}
       /\ game' = Contribute(Consumed(game, TRUE), lookup, DlineKeys, LAMBDA k : f[k].n)
       /\ sealed' = NoGame
       /\ UNCHANGED <<hdr_vars, batting_order_list, batting_order_numbers,
                      players_in_batting_order, list_of_pitchers,
                      list_of_pinch_hitters, list_of_pinch_runners,
                      pitching_stats_list, team_stats_list, linescore_total,
                      linescore_innings, number_of_box_scores_scanned, cc_pc,
                      checks_run, focus>>

\* stat,pline,id,side,seq,ip*3,no-out,bfp,h,2b,3b,hr,r,er,bb,ibb,k,...
StatPline(id, side, f) ==
    LET lookup == Lookup(side)
        unparsed == \E k \in DOMAIN f : ~f[k].ok
        outs == f["Outs"].n
        strikeouts == f["Strikeouts"].n
        keyerror == strikeouts > outs /\ id \notin player_info(s_team_names[lookup])
        p1 == update_pitching_stats_list_conditionally(pitching_stats_list, lookup, "Outs", outs)
        p2 == update_pitching_stats_list_conditionally(p1, lookup, "Hits", f["Hits"].n)
        p3 == update_pitching_stats_list_conditionally(p2, lookup, "Runs", f["Runs"].n)
        p4 == update_pitching_stats_list_conditionally(p3, lookup, "Walks", f["Walks"].n)
        p5 == update_pitching_stats_list_conditionally(p4, lookup, "Strikeouts", strikeouts)
    IN
    /\ cc_pc = "reading"
    /\ IF unparsed \/ keyerror
       THEN Abort(IF unparsed THEN "ValueError" ELSE "KeyError")
       ELSE
       /\ pitching_stats_list' = p5
       /\ list_of_pitchers' = Bump(list_of_pitchers, lookup, id)
       /\ printed' = IF strikeouts > outs
                     THEN {Diag("ERROR_SO_GT_OUTS", lookup, id, strikeouts, outs)}
                     ELSE {}
       /\ game' = Pitched(Consumed(game, TRUE), lookup, f)
       /\ sealed' = NoGame
       /\ UNCHANGED <<hdr_vars, batting_order_list, batting_order_numbers,
                      players_in_batting_order, list_of_pinch_hitters,
                      list_of_pinch_runners, pos_list, stats_list,
                      team_stats_list, linescore_total, linescore_innings,
                      number_of_box_scores_scanned, cc_pc, checks_run, focus>>

\* stat,prline,id,inning,side,r,sb,cs
StatPrline(id, side) ==
    /\ cc_pc = "reading"
    /\ list_of_pinch_runners' =
          [list_of_pinch_runners EXCEPT ![Lookup(side)] = Append(@, id)]
    /\ printed' = {}
    /\ game' = Consumed(game, TRUE)
    /\ sealed' = NoGame
    /\ UNCHANGED <<hdr_vars, batting_order_list, batting_order_numbers,
                   players_in_batting_order, list_of_pitchers,
                   list_of_pinch_hitters, pos_list, stats_list,
                   pitching_stats_list, team_stats_list, linescore_total,
                   linescore_innings, number_of_box_scores_scanned, cc_pc,
                   checks_run, focus>>

\* stat,phline,id,inning,side,ab,r,h,...
StatPhline(id, side) ==
    /\ cc_pc = "reading"
    /\ list_of_pinch_hitters' = Bump(list_of_pinch_hitters, Lookup(side), id)
    /\ printed' = {}
    /\ game' = Consumed(game, TRUE)
    /\ sealed' = NoGame
    /\ UNCHANGED <<hdr_vars, batting_order_list, batting_order_numbers,
                   players_in_batting_order, list_of_pitchers,
                   list_of_pinch_runners, pos_list, stats_list,
                   pitching_stats_list, team_stats_list, linescore_total,
                   linescore_innings, number_of_box_scores_scanned, cc_pc,
                   checks_run, focus>>

\* line,side,runs of inning 1,runs of inning 2,...
LineScore(side, innings) ==
    LET lookup == Lookup(side)
        unparsed == \E i \in 1..Len(innings) : ~innings[i].ok
        total_runs == SeqSum([i \in 1..Len(innings) |-> innings[i].n])
    IN
    /\ cc_pc = "reading"
    /\ IF unparsed THEN Abort("ValueError")
       ELSE
       /\ linescore_total' = [linescore_total EXCEPT ![lookup] = total_runs]
       /\ linescore_innings' = [linescore_innings EXCEPT ![lookup] = Len(innings)]
       /\ printed' = {}
       /\ game' = [Consumed(game, TRUE) EXCEPT
                      !.scored[lookup] = <<[i \in 1..Len(innings) |-> innings[i].n]>>]
       /\ sealed' = NoGame
       /\ UNCHANGED <<hdr_vars, batting_order_list, batting_order_numbers,
                      players_in_batting_order, list_of_pitchers,
                      list_of_pinch_hitters, list_of_pinch_runners, pos_list,
                      stats_list, pitching_stats_list, team_stats_list,
                      number_of_box_scores_scanned, cc_pc, checks_run, focus>>


\* event,dpline|tpline,side,player-id...   event,hpline,side,pitcher-id,batter-id
Event(event_type, side, pid_list) ==
    LET lookup == Lookup(side)
        opponent == Other(lookup)
        pids == {pid_list[i] : i \in 1..Len(pid_list)}
    IN
    /\ cc_pc = "reading"
    /\ IF event_type = "hpline" /\ Len(pid_list) < 2 THEN Abort("IndexError")
       ELSE
       /\ printed' =
            IF event_type \in {"dpline", "tpline"}
            THEN {Diag("EVENT_NOT_IN_ROSTER", lookup, p, 0, 0) :
                     p \in {q \in pids : q \notin player_info(s_team_names[lookup])}}
                 \cup
                 {Diag("EVENT_NOT_IN_BATTING_ORDER", lookup, p, 0, 0) :
                     p \in {q \in pids : ~InDict(players_in_batting_order[lookup], q)}}
            ELSE IF event_type = "hpline"
            THEN (IF pid_list[1] \notin player_info(s_team_names[lookup])
                  THEN {Diag("HBP_PITCHER_NOT_IN_ROSTER", lookup, pid_list[1], 0, 0)}
                  ELSE {})
                 \cup
                 (IF pid_list[2] \notin player_info(s_team_names[opponent])
                  THEN {Diag("HBP_BATTER_NOT_IN_ROSTER", opponent, pid_list[2], 0, 0)}
                  ELSE {})
            ELSE {}
       /\ game' = Consumed(game, TRUE)
       /\ sealed' = NoGame
       /\ UNCHANGED <<hdr_vars, acc_vars, number_of_box_scores_scanned, cc_pc,
                      checks_run, focus>>

\* teamstat,side,ab,r,h,po,a,e: fields 2..7 are read, any further field of
\* the record is not looked at.  f: the fields of the record by name
TeamStat(side, f) ==
    LET lookup == Lookup(side)
        unparsed == \E k \in TeamKeys : ~f[k].ok
        t1 == update_team_stats_list_conditionally(team_stats_list, lookup, "AB", f["AB"].n)
        t2 == update_team_stats_list_conditionally(t1, lookup, "Runs", f["Runs"].n)
        t3 == update_team_stats_list_conditionally(t2, lookup, "Hits", f["Hits"].n)
        t4 == update_team_stats_list_conditionally(t3, lookup, "Putouts", f["Putouts"].n)
        t5 == update_team_stats_list_conditionally(t4, lookup, "Assists", f["Assists"].n)
        t6 == update_team_stats_list_conditionally(t5, lookup, "Errors", f["Errors"].n)
    IN
    /\ cc_pc = "reading"
    /\ IF unparsed THEN Abort("ValueError")
       ELSE
       /\ team_stats_list' = t6
       /\ printed' = {}
       /\ game' = [Consumed(game, FALSE) EXCEPT
                      !.reported[lookup] = Append(@, [k \in DOMAIN f |-> f[k].n])]
       /\ sealed' = NoGame
       /\ UNCHANGED <<hdr_vars, batting_order_list, batting_order_numbers,
                      players_in_batting_order, list_of_pitchers,
                      list_of_pinch_hitters, list_of_pinch_runners, pos_list,
                      stats_list, pitching_stats_list, linescore_total,
                      linescore_innings, number_of_box_scores_scanned, cc_pc,
                      checks_run, focus>>

\* info,<info_type>,<value>: the loop body is module-level code, so these
\* assignments do bind the module-level names
Info(info_type, value) ==
    /\ cc_pc = "reading"
    /\ s_team_names' =
          IF info_type = "visteam" THEN [s_team_names EXCEPT !["road"] = value]
          ELSE IF info_type = "hometeam" THEN [s_team_names EXCEPT !["home"] = value]
          ELSE s_team_names
    /\ s_date_of_game' = IF info_type = "date" THEN value ELSE s_date_of_game
    /\ s_game_number_this_date' =
          IF info_type = "number" THEN value ELSE s_game_number_this_date
    /\ s_usedh' = IF info_type = "usedh" THEN value ELSE s_usedh
    /\ s_wp_id' = IF info_type = "wp" THEN value ELSE s_wp_id
    /\ s_lp_id' = IF info_type = "lp" THEN value ELSE s_lp_id
    /\ printed' = IF info_type = "number"
                  THEN {Diag("CHECKING", "", s_date_of_game, 0, 0)} ELSE {}
    /\ game' = [Consumed(game, FALSE) EXCEPT !.infos = @ \cup {info_type}]
    /\ sealed' = NoGame
    /\ UNCHANGED <<acc_vars, number_of_box_scores_scanned, cc_pc, checks_run, focus>>

\* version: the sentinel that starts a box score
Version ==
    /\ cc_pc = "reading"
    /\ number_of_box_scores_scanned < MaxGames
    /\ IF number_of_box_scores_scanned > 0
       THEN /\ checks_run' = checks_run + 1
            /\ sealed' = Snapshot
            /\ IF CheckStatsRaises
               THEN /\ cc_pc' = "aborted"
                    /\ printed' = CheckStatsOutput \cup {Traceback(CheckStatsException)}
                    /\ UNCHANGED <<hdr_vars, acc_vars,
                                   number_of_box_scores_scanned, game>>
               ELSE /\ printed' = CheckStatsOutput
                    /\ clear_stats
                    /\ number_of_box_scores_scanned' = number_of_box_scores_scanned + 1
                    /\ game' = EmptyGame
                    /\ UNCHANGED cc_pc
       ELSE /\ number_of_box_scores_scanned' = number_of_box_scores_scanned + 1
            /\ printed' = {}
            /\ sealed' = NoGame
            /\ game' = EmptyGame
            /\ UNCHANGED <<hdr_vars, acc_vars, cc_pc, checks_run>>
    /\ UNCHANGED focus

\* after the loop: "check the last box score", then the Done line
EndOfStream ==
    /\ cc_pc = "reading"
    /\ checks_run' = checks_run + 1
    /\ sealed' = Snapshot
    /\ batting_order_numbers' = SortedByCheck
    /\ IF CheckStatsRaises
       THEN /\ cc_pc' = "aborted"
            /\ printed' = CheckStatsOutput \cup {Traceback(CheckStatsException)}
       ELSE /\ cc_pc' = "done"
            /\ printed' = CheckStatsOutput \cup
                  {Diag("DONE", "", "", number_of_box_scores_scanned, 0)}
    /\ UNCHANGED <<hdr_vars, batting_order_list, players_in_batting_order,
                   list_of_pitchers, list_of_pinch_hitters,
                   list_of_pinch_runners, pos_list, stats_list,
                   pitching_stats_list, team_stats_list, linescore_total,
                   linescore_innings, number_of_box_scores_scanned, game, focus>>

\* the state when the main loop is entered (after the clear_stats() call)
InitCC ==
    /\ s_team_names = [tm \in Sides |-> ""]
    /\ s_date_of_game = ""
    /\ s_game_number_this_date = ""
    /\ s_usedh = "false"
    /\ s_wp_id = UNDEF
    /\ s_lp_id = UNDEF
    /\ batting_order_list = InitBattingOrderList
    /\ batting_order_numbers = [tm \in Sides |-> << >>]
    /\ players_in_batting_order = EmptyCounts
    /\ list_of_pitchers = EmptyCounts
    /\ list_of_pinch_hitters = EmptyCounts
    /\ list_of_pinch_runners = [tm \in Sides |-> << >>]
    /\ pos_list = InitPosList
    /\ stats_list = InitStats
    /\ pitching_stats_list = InitPitchingStats
    /\ team_stats_list = InitTeamStats
    /\ linescore_total = [tm \in Sides |-> 0]
    /\ linescore_innings = [tm \in Sides |-> 0]
    /\ number_of_box_scores_scanned = 0
    /\ cc_pc = "reading"
    /\ printed = {}
    /\ checks_run = 0
    /\ game = EmptyGame
    /\ sealed = NoGame

\* ========================================================= bp_create_db.py
\* The loader: one pass over the same file, rows added to a session that is
\* committed after the last line.
VARIABLES
    road_team, home_team,          \* module-level names bound by info records
    db_date_of_game,               \* s_date_of_game of bp_create_db.py
    db_game_number_this_date,      \* s_game_number_this_date of bp_create_db.py
    s_winning_pitcher_pid, s_losing_pitcher_pid,
    game_info,                     \* the GameInfo row being filled
    defensive_positions, defensive_dlines, pinch_hitters, pinch_runners,
    session,                       \* bag of the rows added to the session
    database,                      \* bag of the rows committed
    db_box_scores_scanned,         \* number_of_box_scores_scanned of bp_create_db.py
    ld_pc,                         \* "reading" | "done" | "aborted"
    ld_printed,                    \* what the latest step wrote to stdout
    \* --- history of the input, kept for stating the properties
    ld_game,                       \* info types of the current game, lines of the run
    ld_last,                       \* the record the latest step consumed
    ld_attributed                  \* the stat records resolved to a team

ld_vars == <<road_team, home_team, db_date_of_game, db_game_number_this_date,
             s_winning_pitcher_pid, s_losing_pitcher_pid, game_info,
             defensive_positions, defensive_dlines, pinch_hitters,
             pinch_runners, session, database, db_box_scores_scanned, ld_pc,
             ld_printed, ld_game, ld_last, ld_attributed>>

NONE == "<None>"                  \* a column or key that was never assigned
\* an Integer column of a row: << >> while NULL, <<n>> once assigned
NULL == << >>
IntegerColumn(n) == <<n>>

pos_strings ==
    <<"", "p", "c", "1b", "2b", "3b", "ss", "lf", "cf", "rf", "dh", "pr", "ph">>

\* datetime.datetime.strptime(value, '%Y/%m/%d') accepts the value
DateOk(value) == value \in {"1938/04/16", "1938/04/17"}

BattingColumns ==
    {"ab", "runs", "hits", "doubles", "triples", "hr", "rbi", "sh", "sf", "hbp",
     "bb", "ibb", "strikeouts", "sb", "cs", "gidp", "int"}
PitchingColumns ==
    {"outs", "bfp", "hits", "doubles", "triples", "hr", "runs", "earned_runs",
     "walks", "intentional_walks", "strikeouts", "hbp", "wp", "balk", "sh", "sf"}

\* GameInfo() with comments = ""
NewGameInfo ==
    [date |-> NONE, date_as_dt |-> NONE, game_number_that_day |-> NONE,
     road_team |-> NONE, home_team |-> NONE, start_time |-> NONE,
     daynight_game |-> NONE, time_of_game |-> NONE, attendance |-> NONE,
     winning_pitcher_pid |-> NONE, losing_pitcher_pid |-> NONE,
     road_team_runs |-> NULL, home_team_runs |-> NULL, innings |-> NULL,
     comments |-> ""]

NoPositions == [tm \in Sides |-> [p \in PlayerIds |-> << >>]]
NoEntries == [tm \in Sides |-> [p \in PlayerIds |-> NONE]]

clear_defensive_info ==
    /\ defensive_positions' = NoPositions
    /\ pinch_hitters' = NoEntries
    /\ pinch_runners' = NoEntries
    /\ defensive_dlines' = NoEntries

\* the loop of get_positions over the positions of one player: pos_number
\* past the end of pos_strings is replaced by 0, a negative one indexes from
\* the end
PosNumber(pos) == IF pos.n >= Len(pos_strings) THEN 0 ELSE pos.n
PosName(pos) == pos_strings[ListIndex(PosNumber(pos), Len(pos_strings)) + 1]

RECURSIVE PositionString(_, _)
PositionString(pos_string, positions) ==
    IF positions = << >> THEN pos_string
    ELSE PositionString(IF pos_string = "" THEN PosName(Head(positions))
                        ELSE pos_string \o "-" \o PosName(Head(positions)),
                        Tail(positions))

PinchPrefix(tm, id) ==
    IF pinch_hitters[tm][id] # NONE THEN "ph"
    ELSE IF pinch_runners[tm][id] # NONE THEN "pr" ELSE ""

get_positions(tm, id) == PositionString(PinchPrefix(tm, id), defensive_positions[tm][id])

\* the exception get_positions raises on these positions, "" when none:
\* int(pos) on text, or an index before the start of pos_strings
RECURSIVE PositionsException(_)
PositionsException(positions) ==
    IF positions = << >> THEN ""
    ELSE IF ~Head(positions).ok THEN "ValueError"
    ELSE IF ListIndex(PosNumber(Head(positions)), Len(pos_strings)) < 0 THEN "IndexError"
    ELSE PositionsException(Tail(positions))

PositionWarnings(tm, id) ==
    {Diag("WARNING_BOGUS_POSITION", tm, id, defensive_positions[tm][id][i].n, 0) :
        i \in {j \in 1..Len(defensive_positions[tm][id]) :
                  defensive_positions[tm][id][j].n >= Len(pos_strings)}}

\* position_list.split("-"): the prefix and the position names; no name
\* holds a "-"
PositionArray(tm, id) ==
    (IF PinchPrefix(tm, id) # "" THEN {PinchPrefix(tm, id)} ELSE {})
    \cup {PosName(defensive_positions[tm][id][i]) :
            i \in 1..Len(defensive_positions[tm][id])}

DefenseIds(tm) ==
    {p \in PlayerIds : \/ defensive_positions[tm][p] # << >>
                       \/ pinch_hitters[tm][p] # NONE
                       \/ pinch_runners[tm][p] # NONE}

\* what building the DefensiveStats row of (tm, id) raises, "" when nothing
DefenseRowException(tm, id) ==
    IF PositionsException(defensive_positions[tm][id]) # ""
    THEN PositionsException(defensive_positions[tm][id])
    ELSE IF road_team = UNDEF \/ home_team = UNDEF THEN "NameError" ELSE ""

DefenseRow(info, tm, id) ==
    [kind |-> "defense", date |-> info.date,
     game_number_that_day |-> info.game_number_that_day, pid |-> id,
     position_list |-> get_positions(tm, id),
     road |-> (tm = "road"),
     my_team |-> IF tm = "road" THEN road_team ELSE home_team,
     opponent |-> IF tm = "road" THEN home_team ELSE road_team,
     flags |-> PositionArray(tm, id) \ {""}]

\* add_defensive_info: the side whose rows raise first, and the exceptions
\* that can be the first one (the ids of a side are visited in set order)
DefenseRaisingSide ==
    IF \E p \in DefenseIds("road") : DefenseRowException("road", p) # "" THEN "road"
    ELSE IF \E p \in DefenseIds("home") : DefenseRowException("home", p) # "" THEN "home"
    ELSE "none"
DefenseExceptions ==
    IF DefenseRaisingSide = "none" THEN {}
    ELSE {DefenseRowException(DefenseRaisingSide, p) : p \in DefenseIds(DefenseRaisingSide)}
         \ {""}

add_defensive_info(info) ==
    SetToBag(UNION {{DefenseRow(info, tm, p) : p \in DefenseIds(tm)} : tm \in Sides})
DefenseWarnings ==
    UNION {UNION {PositionWarnings(tm, p) : p \in DefenseIds(tm)} : tm \in Sides}

\* ---------------------------------------------------- loader: main loop
\* appearances: per side and player, the kinds of the fielder and pinch lines
\* of the current game that name the player, in file order
NoAppearances == [tm \in Sides |-> [p \in PlayerIds |-> << >>]]
NotScored == [tm \in Sides |-> << >>]
EmptyLdGame ==
    [infos |-> {}, lines |-> 0, appearances |-> NoAppearances, scored |-> NotScored]
NewLdGame(g) ==
    [g EXCEPT !.infos = {}, !.appearances = NoAppearances, !.scored = NotScored]
Appeared(g, lookup, id, how) ==
    [g EXCEPT !.lines = @ + 1, !.appearances[lookup][id] = Append(@, how)]
NoStat == [stat |-> FALSE]
TeamsNamed == {"visteam", "hometeam"} \subseteq ld_game.infos
StatRecord(sub_line_type, side) ==
    [stat |-> TRUE, sub_line_type |-> sub_line_type, side |-> side,
     named |-> TeamsNamed]
Attribution(sub_line_type, side, team) ==
    [sub_line_type |-> sub_line_type, side |-> side, named |-> TeamsNamed,
     team |-> team]

LdAbort(exc, last) ==
    /\ ld_pc' = "aborted"
    /\ ld_printed' = {Traceback(exc)}
    /\ ld_last' = last
    /\ UNCHANGED <<road_team, home_team, db_date_of_game,
                   db_game_number_this_date, s_winning_pitcher_pid,
                   s_losing_pitcher_pid, game_info, defensive_positions,
                   defensive_dlines, pinch_hitters, pinch_runners, session,
                   database, db_box_scores_scanned, ld_game, ld_attributed>>

LdVersion ==
    /\ ld_pc = "reading"
    /\ db_box_scores_scanned < MaxGames
    /\ IF db_box_scores_scanned > 0
       THEN IF DefenseExceptions # {}
            THEN \E exc \in DefenseExceptions : LdAbort(exc, NoStat)
            ELSE /\ session' = session (+) add_defensive_info(game_info)
                                       (+) SetToBag({[kind |-> "game", info |-> game_info]})
                 /\ game_info' = NewGameInfo
                 /\ clear_defensive_info
                 /\ db_box_scores_scanned' = db_box_scores_scanned + 1
                 /\ ld_printed' = DefenseWarnings
                 /\ ld_game' = NewLdGame(ld_game)
                 /\ ld_last' = NoStat
                 /\ UNCHANGED <<road_team, home_team, db_date_of_game,
                                db_game_number_this_date, s_winning_pitcher_pid,
                                s_losing_pitcher_pid, database, ld_pc,
                                ld_attributed>>
       ELSE /\ db_box_scores_scanned' = db_box_scores_scanned + 1
            /\ ld_printed' = {}
            /\ ld_game' = NewLdGame(ld_game)
            /\ ld_last' = NoStat
            /\ UNCHANGED <<road_team, home_team, db_date_of_game,
                           db_game_number_this_date, s_winning_pitcher_pid,
                           s_losing_pitcher_pid, game_info, defensive_positions,
                           defensive_dlines, pinch_hitters, pinch_runners,
                           session, database, ld_pc, ld_attributed>>

\* info,<info_type>,<value>
LdInfo(info_type, value) ==
    /\ ld_pc = "reading"
    /\ IF info_type = "date" /\ ~DateOk(value) THEN LdAbort("ValueError", NoStat)
       ELSE
       /\ road_team' = IF info_type = "visteam" THEN value ELSE road_team
       /\ home_team' = IF info_type = "hometeam" THEN value ELSE home_team
       /\ db_date_of_game' = IF info_type = "date" THEN value ELSE db_date_of_game
       /\ db_game_number_this_date' =
             IF info_type = "number" THEN value ELSE db_game_number_this_date
       /\ s_winning_pitcher_pid' =
             IF info_type = "wp" THEN value ELSE s_winning_pitcher_pid
       /\ s_losing_pitcher_pid' =
             IF info_type = "lp" THEN value ELSE s_losing_pitcher_pid
       /\ game_info' =
             CASE info_type = "visteam"    -> [game_info EXCEPT !.road_team = value]
               [] info_type = "hometeam"   -> [game_info EXCEPT !.home_team = value]
               [] info_type = "date"       -> [game_info EXCEPT !.date = value,
                                                                !.date_as_dt = value]
               [] info_type = "number"     -> [game_info EXCEPT !.game_number_that_day = value]
               [] info_type = "wp"         -> [game_info EXCEPT !.winning_pitcher_pid = value]
               [] info_type = "lp"         -> [game_info EXCEPT !.losing_pitcher_pid = value]
               [] info_type = "starttime"  -> [game_info EXCEPT !.start_time = value]
               [] info_type = "timeofgame" -> [game_info EXCEPT !.time_of_game = value]
               [] info_type = "attendance" -> [game_info EXCEPT !.attendance = value]
               [] info_type = "daynight"   ->
                     [game_info EXCEPT !.daynight_game =
                         IF value = "day" THEN "D"
                         ELSE IF value = "night" THEN "N" ELSE "U"]
               [] OTHER -> game_info
       /\ ld_printed' = {}
       /\ ld_game' = [ld_game EXCEPT !.infos = @ \cup {info_type}]
       /\ ld_last' = NoStat
       /\ UNCHANGED <<defensive_positions, defensive_dlines, pinch_hitters,
                      pinch_runners, session, database, db_box_scores_scanned,
                      ld_pc, ld_attributed>>

\* com,<text>
LdCom(text) ==
    /\ ld_pc = "reading"
    /\ game_info' = [game_info EXCEPT !.comments =
                        IF Len(@) > 0 THEN @ \o ";" \o text ELSE text]
    /\ ld_printed' = {}
    /\ ld_game' = [ld_game EXCEPT !.lines = @ + 1]
    /\ ld_last' = NoStat
    /\ UNCHANGED <<road_team, home_team, db_date_of_game,
                   db_game_number_this_date, s_winning_pitcher_pid,
                   s_losing_pitcher_pid, defensive_positions, defensive_dlines,
                   pinch_hitters, pinch_runners, session, database,
                   db_box_scores_scanned, ld_pc, ld_attributed>>

\* line,side,runs of inning 1,...
\* a variant in which a line record of either side sets the inning count
SetsInningsAlike(side) == TRUE
\* the line record that sets the inning count of the game: the road side's
SetsInnings(side) == side = ROAD_ID

LdLine(side, innings) ==
    LET unparsed == ~side.ok \/ \E i \in 1..Len(innings) : ~innings[i].ok
        total_runs == SeqSum([i \in 1..Len(innings) |-> innings[i].n])
    IN
    /\ ld_pc = "reading"
    /\ IF unparsed THEN LdAbort("ValueError", NoStat)
       ELSE
       /\ game_info' =
             [game_info EXCEPT
                 !.road_team_runs =
                     IF side.n = ROAD_ID THEN IntegerColumn(total_runs) ELSE @,
                 !.home_team_runs =
                     IF side.n = ROAD_ID THEN @ ELSE IntegerColumn(total_runs),
                 !.innings =
                     IF SetsInnings(side.n) THEN IntegerColumn(Len(innings)) ELSE @]
       /\ ld_printed' = {}
       /\ ld_game' = [ld_game EXCEPT
                         !.lines = @ + 1,
                         !.scored[Lookup(side.n)] =
                             <<[i \in 1..Len(innings) |-> innings[i].n]>>]
       /\ ld_last' = NoStat
       /\ UNCHANGED <<road_team, home_team, db_date_of_game,
                      db_game_number_this_date, s_winning_pitcher_pid,
                      s_losing_pitcher_pid, defensive_positions,
                      defensive_dlines, pinch_hitters, pinch_runners, session,
                      database, db_box_scores_scanned, ld_pc, ld_attributed>>

\* the first exception of the common head of the bline and pline handlers,
\* "" when none: the date and game number names, int(side), the team names
StatHeadException(side) ==
    IF db_date_of_game = UNDEF \/ db_game_number_this_date = UNDEF THEN "NameError"
    ELSE IF ~side.ok THEN "ValueError"
    ELSE IF road_team = UNDEF \/ home_team = UNDEF THEN "NameError"
    ELSE ""

MyTeam(side) == IF side.n = ROAD_ID THEN road_team ELSE home_team
Opponent(side) == IF side.n = ROAD_ID THEN home_team ELSE road_team

\* stat,bline,id,side,pos,seq,ab,r,h,2b,3b,hr,rbi,sh,sf,hbp,bb,ibb,k,sb,cs,gidp,int
LdStatBline(id, side, pos, seq, f) ==
    LET last == StatRecord("bline", side)
        exc == IF StatHeadException(side) # "" THEN StatHeadException(side)
               ELSE IF \E k \in BattingColumns : ~f[k].ok THEN "ValueError"
               ELSE ""
        stats == [kind |-> "batting", date |-> db_date_of_game,
                  game_number_that_day |-> db_game_number_this_date,
                  road |-> (side.n = ROAD_ID),
                  my_team |-> MyTeam(side), opponent |-> Opponent(side),
                  pid |-> id, batting_order_number |-> pos,
                  sequence_number |-> seq,
                  stats |-> [k \in BattingColumns |-> f[k].n]]
    IN
    /\ ld_pc = "reading"
    /\ IF exc # "" THEN LdAbort(exc, last)
       ELSE
       /\ session' = session (+) SetToBag({stats})
       /\ ld_printed' = {}
       /\ ld_game' = [ld_game EXCEPT !.lines = @ + 1]
       /\ ld_last' = last
       /\ ld_attributed' = ld_attributed \cup {Attribution("bline", side, MyTeam(side))}
       /\ UNCHANGED <<road_team, home_team, db_date_of_game,
                      db_game_number_this_date, s_winning_pitcher_pid,
                      s_losing_pitcher_pid, game_info, defensive_positions,
                      defensive_dlines, pinch_hitters, pinch_runners, database,
                      db_box_scores_scanned, ld_pc>>

\* stat,pline,id,side,seq,ip*3,no-out,bfp,h,2b,3b,hr,r,er,bb,ibb,k,hbp,wp,balk,sh,sf
LdStatPline(id, side, seq, f) ==
    LET last == StatRecord("pline", side)
        exc == IF StatHeadException(side) # "" THEN StatHeadException(side)
               ELSE IF s_winning_pitcher_pid = UNDEF \/ s_losing_pitcher_pid = UNDEF
                    THEN "NameError"
               ELSE IF ~seq.ok \/ \E k \in PitchingColumns : ~f[k].ok THEN "ValueError"
               ELSE ""
        stats == [kind |-> "pitching", date |-> db_date_of_game,
                  game_number_that_day |-> db_game_number_this_date,
                  road |-> (side.n = ROAD_ID),
                  my_team |-> MyTeam(side), opponent |-> Opponent(side),
                  pid |-> id, sequence_number |-> seq,
                  winning_pitcher |-> (id = s_winning_pitcher_pid),
                  losing_pitcher |-> (id = s_losing_pitcher_pid),
                  starting_pitcher |-> (seq.n = 0),
                  stats |-> [k \in PitchingColumns |-> f[k].n]]
    IN
    /\ ld_pc = "reading"
    /\ IF exc # "" THEN LdAbort(exc, last)
       ELSE
       /\ session' = session (+) SetToBag({stats})
       /\ ld_printed' = {}
       /\ ld_game' = [ld_game EXCEPT !.lines = @ + 1]
       /\ ld_last' = last
       /\ ld_attributed' = ld_attributed \cup {Attribution("pline", side, MyTeam(side))}
       /\ UNCHANGED <<road_team, home_team, db_date_of_game,
                      db_game_number_this_date, s_winning_pitcher_pid,
                      s_losing_pitcher_pid, game_info, defensive_positions,
                      defensive_dlines, pinch_hitters, pinch_runners, database,
                      db_box_scores_scanned, ld_pc>>

\* stat,phline,id,inning,side,...   stat,prline,id,inning,side,...
LdStatPinch(sub_line_type, id, inning, side) ==
    LET last == StatRecord(sub_line_type, side)
        lookup == Lookup(side.n)
    IN
    /\ ld_pc = "reading"
    /\ IF ~side.ok THEN LdAbort("ValueError", last)
       ELSE
       /\ IF sub_line_type = "phline"
          THEN /\ pinch_hitters' = [pinch_hitters EXCEPT ![lookup][id] = inning]
               /\ UNCHANGED pinch_runners
          ELSE /\ pinch_runners' = [pinch_runners EXCEPT ![lookup][id] = inning]
               /\ UNCHANGED pinch_hitters
       /\ ld_printed' = {}
       /\ ld_game' = Appeared(ld_game, lookup, id, sub_line_type)
       /\ ld_last' = last
       /\ ld_attributed' = ld_attributed \cup {Attribution(sub_line_type, side, lookup)}
       /\ UNCHANGED <<road_team, home_team, db_date_of_game,
                      db_game_number_this_date, s_winning_pitcher_pid,
                      s_losing_pitcher_pid, game_info, defensive_positions,
                      defensive_dlines, session, database,
                      db_box_scores_scanned, ld_pc>>

\* stat,dline,id,side,seq,pos,if*3,po,a,e,dp,tp,pb.  fields: the record from
\* its id on, kept for the first dline of a player only
LdStatDline(id, side, pos, fields) ==
    LET last == StatRecord("dline", side)
        lookup == Lookup(side.n)
    IN
    /\ ld_pc = "reading"
    /\ IF ~side.ok THEN LdAbort("ValueError", last)
       ELSE
       /\ defensive_dlines' =
             IF defensive_dlines[lookup][id] = NONE
             THEN [defensive_dlines EXCEPT ![lookup][id] = fields]
             ELSE defensive_dlines
       /\ defensive_positions' =
             [defensive_positions EXCEPT ![lookup][id] = Append(@, pos)]
       /\ ld_printed' = {}
       /\ ld_game' = Appeared(ld_game, lookup, id, "dline")
       /\ ld_last' = last
       /\ ld_attributed' = ld_attributed \cup {Attribution("dline", side, lookup)}
       /\ UNCHANGED <<road_team, home_team, db_date_of_game,
                      db_game_number_this_date, s_winning_pitcher_pid,
                      s_losing_pitcher_pid, game_info, pinch_hitters,
                      pinch_runners, session, database, db_box_scores_scanned,
                      ld_pc>>

\* after the loop: the last game's rows, the commit, the Done line
LdEndOfStream ==
    /\ ld_pc = "reading"
    /\ IF DefenseExceptions # {}
       THEN \E exc \in DefenseExceptions : LdAbort(exc, NoStat)
       ELSE /\ session' = session (+) add_defensive_info(game_info)
                                  (+) SetToBag({[kind |-> "game", info |-> game_info]})
            /\ database' = session'
            /\ ld_pc' = "done"
            /\ ld_printed' = DefenseWarnings \cup
                  {Diag("DONE", "", "", db_box_scores_scanned, 0)}
            /\ ld_last' = NoStat
            /\ UNCHANGED <<road_team, home_team, db_date_of_game,
                           db_game_number_this_date, s_winning_pitcher_pid,
                           s_losing_pitcher_pid, game_info, defensive_positions,
                           defensive_dlines, pinch_hitters, pinch_runners,
                           db_box_scores_scanned, ld_game, ld_attributed>>

\* the state when the main loop is entered
InitLD ==
    /\ road_team = UNDEF
    /\ home_team = UNDEF
    /\ db_date_of_game = UNDEF
    /\ db_game_number_this_date = UNDEF
    /\ s_winning_pitcher_pid = UNDEF
    /\ s_losing_pitcher_pid = UNDEF
    /\ game_info = NewGameInfo
    /\ defensive_positions = NoPositions
    /\ defensive_dlines = NoEntries
    /\ pinch_hitters = NoEntries
    /\ pinch_runners = NoEntries
    /\ session = EmptyBag
    /\ database = EmptyBag
    /\ db_box_scores_scanned = 0
    /\ ld_pc = "reading"
    /\ ld_printed = {}
    /\ ld_game = EmptyLdGame
    /\ ld_last = NoStat
    /\ ld_attributed = {}

\* ==================================================== SQLA/bp_splits_db.py
\* The aggregator with its default arguments (CSV output, no filters): for
\* each player of the batting table, then of the pitching table, the game
\* rows are summed and one row is written to the stats file and one to the
\* counters file.  A row "c1,c2,...,cn," is the sequence of its cells.
VARIABLES
    m_batting_stats, m_batting_stats_counters,
    m_pitching_stats, m_pitching_stats_counters,
    team_name_list,
    player,                        \* the loop variable: the id of the player
    game_record,                   \* the loop variable: the row read last
    count,
    output_file, counters_file,    \* the lines the latest step wrote
    sp_pc,          \* "batting" | "batting_player" | "pitching" |
                    \* "pitching_player" | "done" | "aborted"
    sp_printed,                    \* what the latest step wrote to stdout
    \* --- history of the input, kept for stating the properties
    sp_lines,                      \* the game rows of the current player
    sp_focus                       \* the scenario the generated rows follow

sp_vars == <<m_batting_stats, m_batting_stats_counters, m_pitching_stats,
             m_pitching_stats_counters, team_name_list, player, game_record,
             count, output_file, counters_file, sp_pc, sp_printed, sp_lines,
             sp_focus>>

list_of_batting_stats ==
    <<"games", "ab", "runs", "hits", "doubles", "triples", "hr", "rbi", "sb",
      "cs", "bb", "strikeouts", "BA", "OBP", "SLG", "OPS", "TB", "gidp", "hbp",
      "sh", "sf", "ibb", "int">>
list_of_pitching_stats ==
    <<"games_won", "games_lost", "WLPCT", "ERA", "games", "games_started",
      "outs", "hits", "runs", "earned_runs", "hr", "walks",
      "intentional_walks", "strikeouts", "hbp", "balk", "wp", "bfp", "WHIP",
      "H9", "HR9", "BB9", "SO9", "SO/W">>

\* stat.isupper() on the names of the two lists
IsUpper(stat) ==
    stat \in {"BA", "OBP", "SLG", "OPS", "TB", "WLPCT", "ERA", "WHIP", "H9",
              "HR9", "BB9", "SO9", "SO/W"}

Range(seq) == {seq[i] : i \in 1..Len(seq)}

clear_batting_stats == [stat \in Range(list_of_batting_stats) |-> 0]
clear_batting_stats_counters == [stat \in Range(list_of_batting_stats) |-> 0]
clear_pitching_stats == [stat \in Range(list_of_pitching_stats) |-> 0]
clear_pitching_stats_counters == [stat \in Range(list_of_pitching_stats) |-> 0]

\* m: the pair of dictionaries [stats, counters] the function updates
update_batting_stat_positive_only(m, stat_name, stat_as_integer) ==
    IF stat_as_integer > 0
    THEN [stats    |-> [m.stats EXCEPT ![stat_name] = @ + stat_as_integer],
          counters |-> [m.counters EXCEPT ![stat_name] = @ + 1]]
    ELSE m

\* a variant that adds the value of every game, recorded or not
update_batting_stat_every_game(m, stat_name, stat_as_integer) ==
    [stats    |-> [m.stats EXCEPT ![stat_name] = @ + stat_as_integer],
     counters |-> [m.counters EXCEPT ![stat_name] = @ + 1]]

update_batting_stat(m, stat_name, stat_as_integer) ==
    IF stat_as_integer >= 0
    THEN [stats    |-> [m.stats EXCEPT ![stat_name] = @ + stat_as_integer],
          counters |-> [m.counters EXCEPT ![stat_name] = @ + 1]]
    ELSE m

update_pitching_stat(m, stat_name, stat_as_integer) ==
    IF stat_as_integer >= 0
    THEN [stats    |-> [m.stats EXCEPT ![stat_name] = @ + stat_as_integer],
          counters |-> [m.counters EXCEPT ![stat_name] = @ + 1]]
    ELSE m

\* ---------------------------------------------------- numbers to strings
\* A float that is a ratio of integers, kept exact
Whole(n) == [num |-> n, den |-> 1]
get_ip_as_float(outs_as_integer) == [num |-> outs_as_integer, den |-> 3]

\* what a cell computation leaves when the division raises
ZeroDivisionError == "ZeroDivisionError"

RECURSIVE Pow10(_)
Pow10(p) == IF p = 0 THEN 1 ELSE 10 * Pow10(p - 1)

RECURSIVE ZeroPadded(_, _)
ZeroPadded(v, width) ==
    IF width = 0 THEN "" ELSE ZeroPadded(v \div 10, width - 1) \o ToString(v % 10)

\* n / d in units of 10^-prec, rounded half to even.  For d < 20 this is the
\* digit string '{:.{prec}f}' prints for the float quotient.
Rounded(n, d, prec) ==
    LET q == (n * Pow10(prec)) \div d
        r == (n * Pow10(prec)) % d
    IN  IF 2 * r > d \/ (2 * r = d /\ q % 2 = 1) THEN q + 1 ELSE q

\* '{:.{prec}f}'.format(n / d), then lstrip('0') when asked: the integer part
\* is printed without leading zeros, so only a lone "0" is stripped
FormatQuotient(n, d, prec, strip) ==
    IF d = 0 THEN ZeroDivisionError
    ELSE LET scaled == Rounded(n, d, prec)
             whole == scaled \div Pow10(prec)
         IN  (IF strip /\ whole = 0 THEN "" ELSE ToString(whole))
             \o "." \o ZeroPadded(scaled % Pow10(prec), prec)

\* the same without the guard against a zero dividend
get_pct_unguarded(divisor_as_integer, dividend, decimal_places, remove_leading_zero) ==
    FormatQuotient(divisor_as_integer * dividend.den, dividend.num,
                   decimal_places, remove_leading_zero)

\* dividend: an integer (Whole) or the float get_ip_as_float returns
get_pct_as_string(divisor_as_integer, dividend, decimal_places, remove_leading_zero) ==
    IF dividend.num = 0
    THEN FormatQuotient(0, 1, decimal_places, remove_leading_zero)
    ELSE FormatQuotient(divisor_as_integer * dividend.den, dividend.num,
                        decimal_places, remove_leading_zero)

get_ip(outs_as_integer) ==
    ToString(outs_as_integer \div 3) \o "." \o ToString(outs_as_integer % 3)

\* the same looking at the first stat of the array only
check_first_stat_only(the_stats_counter_dictionary, stats_array) ==
    the_stats_counter_dictionary[stats_array[1]] = the_stats_counter_dictionary["games"]

check_stat_completeness(the_stats_counter_dictionary, stats_array) ==
    \A i \in 1..Len(stats_array) :
        the_stats_counter_dictionary[stats_array[i]] = the_stats_counter_dictionary["games"]

\* str(slg_as_float + obp_as_float).lstrip('0'): the shortest repr of a float
\* sum, kept symbolic
FloatSumRepr(a, b) == "float(" \o a \o ")+float(" \o b \o ")"

\* the name the roster files give the player
PlayerName(pid) == IF pid = "a" THEN "Al Able" ELSE "Cy Cole"

\* ------------------------------------------------------- batting section
\* the update_batting_stat calls of one pass of the loop, in order
BattingUpdates(rec) ==
    <<<<"games", 1>>, <<"ab", rec.stats["ab"]>>, <<"runs", rec.stats["runs"]>>,
      <<"hits", rec.stats["hits"]>>, <<"doubles", rec.stats["doubles"]>>,
      <<"triples", rec.stats["triples"]>>, <<"hr", rec.stats["hr"]>>,
      <<"rbi", rec.stats["rbi"]>>, <<"sh", rec.stats["sh"]>>,
      <<"sf", rec.stats["sf"]>>, <<"hbp", rec.stats["hbp"]>>,
      <<"bb", rec.stats["bb"]>>, <<"ibb", rec.stats["ibb"]>>,
      <<"strikeouts", rec.stats["strikeouts"]>>, <<"sb", rec.stats["sb"]>>,
      <<"cs", rec.stats["cs"]>>, <<"gidp", rec.stats["gidp"]>>,
      <<"int", rec.stats["int"]>>>>

RECURSIVE ApplyBattingUpdates(_, _)
ApplyBattingUpdates(m, updates) ==
    IF updates = << >> THEN m
    ELSE ApplyBattingUpdates(update_batting_stat(m, Head(updates)[1], Head(updates)[2]),
                             Tail(updates))

RECURSIVE JoinTeams(_)
JoinTeams(teams) ==
    IF Len(teams) = 1 THEN teams[1]
    ELSE JoinTeams(SubSeq(teams, 1, Len(teams) - 1)) \o "-" \o teams[Len(teams)]
team_name_string == IF team_name_list = << >> THEN "" ELSE JoinTeams(team_name_list)

total_bases ==
    m_batting_stats["hits"] + m_batting_stats["doubles"]
    + (m_batting_stats["triples"] * 2) + (m_batting_stats["hr"] * 3)

\* a variant that takes the sacrifice flies counted so far
sf_counted == m_batting_stats["sf"]

sf_adjusted ==
    IF m_batting_stats_counters["sf"] # m_batting_stats_counters["games"]
    THEN 0 ELSE m_batting_stats["sf"]

\* BA, TB, SLG and OBP
BattingRatio(stat) ==
    CASE stat = "BA" ->
           IF check_stat_completeness(m_batting_stats_counters, <<"hits", "ab">>)
           THEN get_pct_as_string(m_batting_stats["hits"], Whole(m_batting_stats["ab"]), 3, TRUE)
           ELSE ""
      [] stat = "TB" ->
           IF check_stat_completeness(m_batting_stats_counters,
                                      <<"hits", "doubles", "triples", "hr">>)
           THEN ToString(total_bases) ELSE ""
      [] stat = "SLG" ->
           IF check_stat_completeness(m_batting_stats_counters,
                                      <<"ab", "hits", "doubles", "triples", "hr">>)
           THEN get_pct_as_string(total_bases, Whole(m_batting_stats["ab"]), 3, TRUE)
           ELSE ""
      [] stat = "OBP" ->
           IF check_stat_completeness(m_batting_stats_counters,
                                      <<"ab", "hits", "bb", "hbp">>)
           THEN get_pct_as_string(
                    m_batting_stats["hits"] + m_batting_stats["bb"] + m_batting_stats["hbp"],
                    Whole(m_batting_stats["ab"] + m_batting_stats["hits"]
                        + m_batting_stats["bb"] + m_batting_stats["hbp"] + sf_adjusted),
                    3, TRUE)
           ELSE ""

\* OPS is made of the SLG and OBP cells when both were calculated
\* (slg_as_float and obp_as_float are no longer -1.0)
BattingCalculated(stat) ==
    IF stat # "OPS" THEN BattingRatio(stat)
    ELSE IF BattingRatio("SLG") \notin {"", ZeroDivisionError}
            /\ BattingRatio("OBP") \notin {"", ZeroDivisionError}
    THEN FloatSumRepr(BattingRatio("SLG"), BattingRatio("OBP"))
    ELSE ""

\* the cells one stat adds to stat_string and to counters_string
BattingStatCells(stat) ==
    IF IsUpper(stat) THEN <<BattingCalculated(stat)>>
    ELSE IF m_batting_stats_counters[stat] > 0
    THEN IF check_stat_completeness(m_batting_stats_counters, <<stat>>)
         THEN <<ToString(m_batting_stats[stat])>>
         ELSE <<ToString(m_batting_stats[stat]) \o "*">>
    ELSE <<"">>
BattingCounterCells(stat) ==
    IF IsUpper(stat) THEN <<"">>
    ELSE IF m_batting_stats_counters[stat] > 0
    THEN <<ToString(m_batting_stats_counters[stat])>>
    ELSE << >>

RECURSIVE Cells(_, _)
Cells(cells_of(_), stats) ==
    IF stats = << >> THEN << >>
    ELSE cells_of(Head(stats)) \o Cells(cells_of, Tail(stats))

RowStart == <<PlayerName(game_record.pid), team_name_string>>
RowRaises(row) == \E i \in 1..Len(row) : row[i] = ZeroDivisionError

BattingHeader ==
    <<"Name", "Team", "G", "AB", "R", "H", "2B", "3B", "HR", "RBI", "SB", "CS",
      "BB", "SO", "BA", "OBP", "SLG", "OPS", "TB", "GDP", "HBP", "SH", "SF",
      "IBB", "INT">>
PitchingHeader ==
    <<"Name", "Team", "W", "L", "W-L%", "ERA", "G", "GS", "IP", "H", "R", "ER",
      "HR", "BB", "IBB", "SO", "HBP", "BK", "WP", "BFP", "WHIP", "H9", "HR9",
      "BB9", "SO9", "SO/W">>

\* the players of a table are visited in the order of their ids
PidOrder == <<"a", "c">>

SpAbort(exc) ==
    /\ sp_pc' = "aborted"
    /\ sp_printed' = {Traceback(exc)}
    /\ output_file' = << >>
    /\ counters_file' = << >>
    /\ UNCHANGED <<m_batting_stats, m_batting_stats_counters, m_pitching_stats,
                   m_pitching_stats_counters, team_name_list, player,
                   game_record, count, sp_lines, sp_focus>>

\* the head of the loop over the players of the batting table
BattingPlayer(pid) ==
    /\ sp_pc = "batting"
    /\ player' = pid
    /\ count' = count + 1
    /\ m_batting_stats' = clear_batting_stats
    /\ m_batting_stats_counters' = clear_batting_stats_counters
    /\ team_name_list' = << >>
    /\ sp_pc' = "batting_player"
    /\ output_file' = << >>
    /\ counters_file' = << >>
    /\ sp_printed' = {}
    /\ sp_lines' = << >>
    /\ UNCHANGED <<m_pitching_stats, m_pitching_stats_counters, game_record, sp_focus>>

\* one pass of the loop over the game rows of the player
BattingGameRecord(rec) ==
    LET m == ApplyBattingUpdates([stats |-> m_batting_stats,
                                  counters |-> m_batting_stats_counters],
                                 BattingUpdates(rec))
    IN
    /\ sp_pc = "batting_player"
    /\ game_record' = rec
    /\ m_batting_stats' = m.stats
    /\ m_batting_stats_counters' = m.counters
    /\ team_name_list' = IF rec.my_team \in Range(team_name_list) THEN team_name_list
                         ELSE Append(team_name_list, rec.my_team)
    /\ output_file' = << >>
    /\ counters_file' = << >>
    /\ sp_printed' = {}
    /\ sp_lines' = Append(sp_lines, rec)
    /\ UNCHANGED <<m_pitching_stats, m_pitching_stats_counters, player, count,
                   sp_pc, sp_focus>>

\* after the loop: the player's row of the stats file and of the counters
\* file.  player_info[team_name_list[0]][pid] raises KeyError when the roster
\* of the first team does not list the player.
BattingRow ==
    LET stat_string == RowStart \o Cells(BattingStatCells, list_of_batting_stats)
        counters_string == RowStart \o Cells(BattingCounterCells, list_of_batting_stats)
    IN
    /\ sp_pc = "batting_player"
    /\ sp_lines # << >>
    /\ IF game_record.pid \notin player_info(team_name_list[1]) THEN SpAbort("KeyError")
       ELSE IF RowRaises(stat_string) THEN SpAbort(ZeroDivisionError)
       ELSE /\ output_file' = <<stat_string>>
            /\ counters_file' = <<counters_string>>
            /\ sp_pc' = "batting"
            /\ sp_printed' = {}
            /\ UNCHANGED <<m_batting_stats, m_batting_stats_counters,
                           m_pitching_stats, m_pitching_stats_counters,
                           team_name_list, player, game_record, count,
                           sp_lines, sp_focus>>

\* ------------------------------------------------------ pitching section
\* the blank row and the header of the pitching table
PitchingSection ==
    /\ sp_pc = "batting"
    /\ sp_pc' = "pitching"
    /\ count' = 0
    /\ output_file' = <<<< >>, PitchingHeader>>
    /\ counters_file' = <<<< >>, PitchingHeader>>
    /\ sp_printed' = {}
    /\ UNCHANGED <<m_batting_stats, m_batting_stats_counters, m_pitching_stats,
                   m_pitching_stats_counters, team_name_list, player,
                   game_record, sp_lines, sp_focus>>

PitchingUpdates(rec) ==
    <<<<"games", 1>>>>
    \o (IF rec.starting_pitcher THEN <<<<"games_started", 1>>>> ELSE << >>)
    \o (IF rec.winning_pitcher THEN <<<<"games_won", 1>>>> ELSE << >>)
    \o (IF rec.losing_pitcher THEN <<<<"games_lost", 1>>>> ELSE << >>)
    \o <<<<"outs", rec.stats["outs"]>>, <<"bfp", rec.stats["bfp"]>>,
         <<"hits", rec.stats["hits"]>>, <<"hr", rec.stats["hr"]>>,
         <<"runs", rec.stats["runs"]>>,
         <<"earned_runs", rec.stats["earned_runs"]>>,
         <<"walks", rec.stats["walks"]>>,
         <<"intentional_walks", rec.stats["intentional_walks"]>>,
         <<"strikeouts", rec.stats["strikeouts"]>>, <<"hbp", rec.stats["hbp"]>>,
         <<"wp", rec.stats["wp"]>>, <<"balk", rec.stats["balk"]>>>>

RECURSIVE ApplyPitchingUpdates(_, _)
ApplyPitchingUpdates(m, updates) ==
    IF updates = << >> THEN m
    ELSE ApplyPitchingUpdates(update_pitching_stat(m, Head(updates)[1], Head(updates)[2]),
                              Tail(updates))

\* one of the four rate-per-9 cells: only the stat itself is looked at
PerNine(stat) ==
    IF check_stat_completeness(m_pitching_stats_counters, <<stat>>)
    THEN get_pct_as_string(9 * m_pitching_stats[stat],
                           get_ip_as_float(m_pitching_stats["outs"]), 1, FALSE)
    ELSE ""

PitchingCalculated(stat) ==
    CASE stat = "WLPCT" ->
           get_pct_as_string(m_pitching_stats["games_won"],
                             Whole(m_pitching_stats["games_won"] + m_pitching_stats["games_lost"]),
                             3, TRUE)
      [] stat = "ERA" ->
           IF check_stat_completeness(m_pitching_stats_counters, <<"outs", "earned_runs">>)
           THEN get_pct_as_string(9 * m_pitching_stats["earned_runs"],
                                  get_ip_as_float(m_pitching_stats["outs"]), 3, FALSE)
           ELSE ""
      [] stat = "WHIP" ->
           IF check_stat_completeness(m_pitching_stats_counters, <<"outs", "walks", "hits">>)
           THEN get_pct_as_string(m_pitching_stats["walks"] + m_pitching_stats["hits"],
                                  get_ip_as_float(m_pitching_stats["outs"]), 3, FALSE)
           ELSE ""
      [] stat = "H9" -> PerNine("hits")
      [] stat = "HR9" -> PerNine("hr")
      [] stat = "BB9" -> PerNine("walks")
      [] stat = "SO9" -> PerNine("strikeouts")
      [] stat = "SO/W" ->
           IF check_stat_completeness(m_pitching_stats_counters, <<"strikeouts", "walks">>)
           THEN get_pct_as_string(m_pitching_stats["strikeouts"],
                                  Whole(m_pitching_stats["walks"]), 1, FALSE)
           ELSE ""

PitchingStatCells(stat) ==
    IF IsUpper(stat) THEN <<PitchingCalculated(stat)>>
    ELSE IF stat = "outs" THEN <<get_ip(m_pitching_stats[stat])>>
    ELSE IF stat \in {"games_started", "games_won", "games_lost"}
    THEN <<ToString(m_pitching_stats[stat])>>
    ELSE IF m_pitching_stats_counters[stat] > 0
    THEN IF check_stat_completeness(m_pitching_stats_counters, <<stat>>)
         THEN <<ToString(m_pitching_stats[stat])>>
         ELSE <<ToString(m_pitching_stats[stat]) \o "*">>
    ELSE <<"">>
PitchingCounterCells(stat) ==
    IF IsUpper(stat) \/ stat \in {"games_started", "games_won", "games_lost"}
    THEN <<"">>
    ELSE <<ToString(m_pitching_stats_counters[stat])>>

PitchingPlayer(pid) ==
    /\ sp_pc = "pitching"
    /\ player' = pid
    /\ count' = count + 1
    /\ m_pitching_stats' = clear_pitching_stats
    /\ m_pitching_stats_counters' = clear_pitching_stats_counters
    /\ team_name_list' = << >>
    /\ sp_pc' = "pitching_player"
    /\ output_file' = << >>
    /\ counters_file' = << >>
    /\ sp_printed' = {}
    /\ sp_lines' = << >>
    /\ UNCHANGED <<m_batting_stats, m_batting_stats_counters, game_record, sp_focus>>

PitchingGameRecord(rec) ==
    LET m == ApplyPitchingUpdates([stats |-> m_pitching_stats,
                                   counters |-> m_pitching_stats_counters],
                                  PitchingUpdates(rec))
    IN
    /\ sp_pc = "pitching_player"
    /\ game_record' = rec
    /\ m_pitching_stats' = m.stats
    /\ m_pitching_stats_counters' = m.counters
    /\ team_name_list' = IF rec.my_team \in Range(team_name_list) THEN team_name_list
                         ELSE Append(team_name_list, rec.my_team)
    /\ output_file' = << >>
    /\ counters_file' = << >>
    /\ sp_printed' = {}
    /\ sp_lines' = Append(sp_lines, rec)
    /\ UNCHANGED <<m_batting_stats, m_batting_stats_counters, player, count,
                   sp_pc, sp_focus>>

PitchingRow ==
    LET stat_string == RowStart \o Cells(PitchingStatCells, list_of_pitching_stats)
        counter_string == RowStart \o Cells(PitchingCounterCells, list_of_pitching_stats)
    IN
    /\ sp_pc = "pitching_player"
    /\ sp_lines # << >>
    /\ IF game_record.pid \notin player_info(team_name_list[1]) THEN SpAbort("KeyError")
       ELSE IF RowRaises(stat_string) THEN SpAbort(ZeroDivisionError)
       ELSE /\ output_file' = <<stat_string>>
            /\ counters_file' = <<counter_string>>
            /\ sp_pc' = "pitching"
            /\ sp_printed' = {}
            /\ UNCHANGED <<m_batting_stats, m_batting_stats_counters,
                           m_pitching_stats, m_pitching_stats_counters,
                           team_name_list, player, game_record, count,
                           sp_lines, sp_focus>>

\* the files are closed, the Done line is printed
SplitsDone ==
    /\ sp_pc = "pitching"
    /\ sp_pc' = "done"
    /\ output_file' = << >>
    /\ counters_file' = << >>
    /\ sp_printed' = {Diag("DONE", "", "", 0, 0)}
    /\ UNCHANGED <<m_batting_stats, m_batting_stats_counters, m_pitching_stats,
                   m_pitching_stats_counters, team_name_list, player,
                   game_record, count, sp_lines, sp_focus>>

\* the state when the loop over the batting players is entered: the
\* dictionaries are empty until the first clear, the header row is written
InitSP ==
    /\ m_batting_stats = << >>
    /\ m_batting_stats_counters = << >>
    /\ m_pitching_stats = << >>
    /\ m_pitching_stats_counters = << >>
    /\ team_name_list = << >>
    /\ player = UNDEF
    /\ game_record = UNDEF
    /\ count = 0
    /\ output_file = <<BattingHeader>>
    /\ counters_file = <<BattingHeader>>
    /\ sp_pc = "batting"
    /\ sp_printed = {}
    /\ sp_lines = << >>

\* ============================================ entry tool and box generator
\* bp_enter_data.py writes the games of one session to a file of records;
\* bp_generate_box.py reads that file and prints one box score per game.
\* A record is kept as its comma-separated fields; the text of a com record
\* is kept as its body and whether it is enclosed in double quotes.
VARIABLES hbp_event_dict, en_pc, en_history, efile, gb_read, gb_scanned,
          dp_dict, tp_dict, hbp_dict, game_comment_string, box_file, gb_pc
gb_vars == <<hbp_event_dict, en_pc, en_history, efile, gb_read, gb_scanned,
             dp_dict, tp_dict, hbp_dict, game_comment_string, box_file, gb_pc>>

NoText == [quoted |-> FALSE, body |-> ""]
Quoted(body) == [quoted |-> TRUE, body |-> body]
Unquoted(body) == [quoted |-> FALSE, body |-> body]
\* the characters of a com record after its first comma
Raw(text) == IF text.quoted THEN "\"" \o text.body \o "\"" ELSE text.body

EbxRecord(type, sub, side, fields, text) ==
    [type |-> type, sub |-> sub, side |-> side, fields |-> fields, text |-> text]
VersionRecord == EbxRecord("version", "BOXTOP1", ROAD_ID, << >>, NoText)
ComRecord(text) == EbxRecord("com", "", ROAD_ID, << >>, text)
EventRecord(sub, side, fields) == EbxRecord("event", sub, side, fields, NoText)

\* the roster each side's players are picked from
TeamOf(pid) == IF pid = "a" THEN "road" ELSE "home"
NoEvents == [tm \in Sides |-> << >>]
NothingEntered == [hbp |-> << >>, coms |-> << >>]
\* the file holds at most this many records
FileLength == MaxLines + MaxGames
EntryComments == {"", "rain"}
AddedComments == {Unquoted("cold, windy")}

RECURSIVE Copies(_, _)
Copies(x, n) == IF n = 0 THEN << >> ELSE <<x>> \o Copies(x, n - 1)
EventLines(sub, side, details) ==
    [i \in 1..Len(details) |-> EventRecord(sub, side, details[i])]
Pending(dict) == Len(dict["road"]) + Len(dict["home"])
LatestGame(history, entry) ==
    [history EXCEPT ![Len(history)] = entry]

InitGB ==
    /\ hbp_event_dict = NoEvents
    /\ en_pc = "idle"
    /\ en_history = << >>
    /\ efile = << >>
    /\ gb_read = 0
    /\ gb_scanned = 0
    /\ dp_dict = NoEvents
    /\ tp_dict = NoEvents
    /\ hbp_dict = NoEvents
    /\ game_comment_string = ""
    /\ box_file = << >>
    /\ gb_pc = "waiting"

\* ---- bp_enter_data.py
\* main loop: a new game starts with its header, of which the version
\* record is the one that matters to the reader of events and comments
EnStartGame ==
    /\ en_pc = "idle"
    /\ gb_pc = "waiting"
    /\ Len(efile) < FileLength
    /\ efile' = Append(efile, VersionRecord)
    /\ en_history' = Append(en_history, NothingEntered)
    /\ hbp_event_dict' = NoEvents
    /\ en_pc' = "hbp"
    /\ UNCHANGED <<gb_read, gb_scanned, dp_dict, tp_dict, hbp_dict,
                   game_comment_string, box_file, gb_pc>>

\* get_batting_play_info("HBP", ...): one pass of the menu loop
get_batting_play_info(pitcher, batter, number_of_plays) ==
    /\ en_pc = "hbp"
    /\ Len(efile) + Pending(hbp_event_dict) + number_of_plays <= FileLength
    /\ LET current_team == TeamOf(batter)
           detail_line == <<pitcher, batter>>
           entry == [tm |-> current_team, pitcher |-> pitcher, batter |-> batter]
           entered == en_history[Len(en_history)]
       IN  /\ hbp_event_dict' = [hbp_event_dict EXCEPT ![current_team] =
                                    @ \o Copies(detail_line, number_of_plays)]
           /\ en_history' = LatestGame(en_history,
                  [entered EXCEPT !.hbp = @ \o Copies(entry, number_of_plays)])
    /\ UNCHANGED <<en_pc, efile, gb_read, gb_scanned, dp_dict, tp_dict,
                   hbp_dict, game_comment_string, box_file, gb_pc>>

\* main loop: the events and the comment of the game are written
EnWriteGame(comments) ==
    /\ en_pc = "hbp"
    /\ Len(efile) + Pending(hbp_event_dict) + (IF comments = "" THEN 0 ELSE 1)
           <= FileLength
    /\ LET entered == en_history[Len(en_history)]
           written == EventLines("hpline", HOME_ID, hbp_event_dict["road"])
                      \o EventLines("hpline", ROAD_ID, hbp_event_dict["home"])
       IN  IF Len(comments) > 0
           THEN /\ efile' = efile \o written \o <<ComRecord(Quoted(comments))>>
                /\ en_history' = LatestGame(en_history,
                       [entered EXCEPT !.coms = Append(@, Quoted(comments))])
           ELSE /\ efile' = efile \o written
                /\ en_history' = en_history
    /\ en_pc' = "idle"
    /\ UNCHANGED <<hbp_event_dict, gb_read, gb_scanned, dp_dict, tp_dict,
                   hbp_dict, game_comment_string, box_file, gb_pc>>

\* the file is text: a further com record is added to its last game by hand
EfileCom(text) ==
    /\ en_pc = "idle"
    /\ gb_pc = "waiting"
    /\ Len(efile) > 0
    /\ Len(efile) < FileLength
    /\ efile' = Append(efile, ComRecord(text))
    /\ en_history' = LatestGame(en_history,
           [en_history[Len(en_history)] EXCEPT !.coms = Append(@, text)])
    /\ UNCHANGED <<hbp_event_dict, en_pc, gb_read, gb_scanned, dp_dict, tp_dict,
                   hbp_dict, game_comment_string, box_file, gb_pc>>

\* ---- bp_generate_box.py
GbReads(type) ==
    /\ en_pc = "idle"
    /\ gb_pc \in {"waiting", "reading"}
    /\ gb_read < Len(efile)
    /\ efile[gb_read + 1].type = type

\* print_box(): what the box shows of the comment and of the hit batters
PrintedBox == [notes |-> game_comment_string, hbp |-> hbp_dict,
               dp |-> dp_dict, tp |-> tp_dict]

RECURSIVE JoinColon(_)
JoinColon(fields) ==
    IF Len(fields) = 0 THEN ""
    ELSE IF Len(fields) = 1 THEN fields[1]
    ELSE fields[1] \o ":" \o JoinColon(Tail(fields))

GbVersion ==
    /\ GbReads("version")
    /\ IF gb_scanned > 0
       THEN /\ box_file' = Append(box_file, PrintedBox)
            /\ dp_dict' = NoEvents
            /\ tp_dict' = NoEvents
            /\ hbp_dict' = NoEvents
            /\ game_comment_string' = ""
       ELSE UNCHANGED <<box_file, dp_dict, tp_dict, hbp_dict, game_comment_string>>
    /\ gb_scanned' = gb_scanned + 1
    /\ gb_read' = gb_read + 1
    /\ gb_pc' = "reading"
    /\ UNCHANGED <<hbp_event_dict, en_pc, en_history, efile>>

\* a variant that files a hit batter under the side the record names
EventSide(side) == IF side = ROAD_ID THEN "road" ELSE "home"
\* the side a hit batter is filed under: the one opposite to the record's
EventOpponent(side) == IF side = ROAD_ID THEN "home" ELSE "road"

GbEvent ==
    /\ GbReads("event")
    /\ LET line == efile[gb_read + 1]
           lookup == IF line.side = ROAD_ID THEN "road" ELSE "home"
           opponent == EventOpponent(line.side)
       IN  /\ dp_dict' = IF line.sub = "dpline"
                         THEN [dp_dict EXCEPT ![lookup] =
                                  Append(@, JoinColon(line.fields))]
                         ELSE dp_dict
           /\ tp_dict' = IF line.sub = "tpline"
                         THEN [tp_dict EXCEPT ![lookup] =
                                  Append(@, JoinColon(line.fields))]
                         ELSE tp_dict
           /\ hbp_dict' = IF line.sub = "hpline"
                          THEN [hbp_dict EXCEPT ![opponent] =
                                   Append(@, line.fields[2] \o ":" \o line.fields[1])]
                          ELSE hbp_dict
    /\ gb_read' = gb_read + 1
    /\ gb_pc' = "reading"
    /\ UNCHANGED <<hbp_event_dict, en_pc, en_history, efile, gb_scanned,
                   game_comment_string, box_file>>

GbCom ==
    /\ GbReads("com")
    /\ game_comment_string' = efile[gb_read + 1].text.body
    /\ gb_read' = gb_read + 1
    /\ gb_pc' = "reading"
    /\ UNCHANGED <<hbp_event_dict, en_pc, en_history, efile, gb_scanned,
                   dp_dict, tp_dict, hbp_dict, box_file>>

\* end of the file: the last box score is printed
GbEndOfFile ==
    /\ en_pc = "idle"
    /\ gb_pc \in {"waiting", "reading"}
    /\ gb_scanned > 0
    /\ gb_read = Len(efile)
    /\ box_file' = Append(box_file, PrintedBox)
    /\ gb_pc' = "done"
    /\ UNCHANGED <<hbp_event_dict, en_pc, en_history, efile, gb_read, gb_scanned,
                   dp_dict, tp_dict, hbp_dict, game_comment_string>>

\* =================================================================== specs
vars == <<cc_vars, ld_vars, sp_vars, gb_vars>>

\* each specification runs one of the programs; the others stand still
NoScenario == [stat |-> "", bg |-> 0]
ValidatorOnly == UNCHANGED <<ld_vars, sp_vars, gb_vars>>
LoaderOnly == UNCHANGED <<cc_vars, sp_vars, gb_vars>>
AggregatorOnly == UNCHANGED <<cc_vars, ld_vars, gb_vars>>
BoxOnly == UNCHANGED <<cc_vars, ld_vars, sp_vars>>

\* ------------------------------------------------ generated record fields
\* A scenario (focus) names a statistic, a side and a background literal.
\* The numeric fields of a generated record: the focus statistic carries x,
\* every other field the background
FocusFields(keys, x) == [k \in keys |-> IF k = focus.stat THEN x ELSE focus.bg]

FocusLits == {BadLit} \cup {Lit(n) : n \in (-2)..MaxStat}
BgLits == {Lit(MISSING), Lit(0)}
Scenarios == [stat : StatsKeys, side : {ROAD_ID, HOME_ID}, bg : BgLits]

\* the data-entry tool writes the info records of a game in this order
InfoOrder == <<"visteam", "hometeam", "date", "number", "usedh", "wp", "lp">>
InfoValue(info_type) ==
    CASE info_type = "visteam"  -> "BOS"
      [] info_type = "hometeam" -> "NYY"
      [] info_type = "date"     -> "1938/04/16"
      [] info_type = "number"   -> "0"
      [] info_type = "usedh"    -> "true"
      [] info_type = "wp"       -> "a"
      [] info_type = "lp"       -> "c"

\* ------------------------------------------------------------ SpecTotals
\* The validator on box scores that begin with their version record and
\* name both teams; the player lines and the team totals of the focus side
\* vary in the focus statistic.
InitTotals ==
    /\ InitCC /\ focus \in Scenarios
    /\ InitLD
    /\ InitGB
    /\ InitSP /\ sp_focus = NoScenario

\* the box score has named both teams (the info records precede the stat
\* records of a game) and may take another line
TakesLine ==
    /\ number_of_box_scores_scanned > 0
    /\ game.lines < MaxLines
    /\ \A tm \in Sides : s_team_names[tm] # ""

\* the data-entry tool writes one teamstat record per side of a game
TakesTeamStat(side) ==
    /\ number_of_box_scores_scanned > 0
    /\ \A tm \in Sides : s_team_names[tm] # ""
    /\ game.reported[Lookup(side)] = << >>

NextTotals ==
    \/ Version /\ ValidatorOnly
    \/ game.lines = 0 /\ Info("visteam", "BOS") /\ ValidatorOnly
    \/ game.lines = 0 /\ Info("hometeam", "NYY") /\ ValidatorOnly
    \/ \E x \in FocusLits :
          /\ TakesLine /\ focus.stat \in BlineKeys
          /\ StatBline("a", focus.side, 1, 0,
                       FocusFields(BlineKeys \cup {"2B", "3B", "HR"}, x))
          /\ ValidatorOnly
    \/ \E x \in FocusLits :
          /\ TakesLine /\ focus.stat \in DlineKeys
          /\ StatDline("a", focus.side, 1, FocusFields(DlineKeys, x))
          /\ ValidatorOnly
    \/ \E x \in FocusLits :
          /\ TakesTeamStat(focus.side)
          /\ TeamStat(focus.side, FocusFields(StatsKeys, x))
          /\ ValidatorOnly
    \/ EndOfStream /\ ValidatorOnly

SpecTotals == InitTotals /\ [][NextTotals]_vars

\* ------------------------------------------------------------ SpecStream
\* The validator on streams of any length: box scores with or without a
\* header, with records of every kind, empty box scores, the empty stream.
InitStream ==
    /\ InitCC /\ focus = [stat |-> "AB", side |-> ROAD_ID, bg |-> Lit(1)]
    /\ InitLD
    /\ InitGB
    /\ InitSP /\ sp_focus = NoScenario

\* a file begins with a version record
StreamTakesLine == number_of_box_scores_scanned > 0 /\ game.lines < MaxLines

NextStream ==
    \/ Version /\ ValidatorOnly
    \/ /\ number_of_box_scores_scanned > 0
       /\ game.lines = 0
       /\ Cardinality(game.infos) < Len(InfoOrder)
       /\ LET info_type == InfoOrder[Cardinality(game.infos) + 1]
          IN  Info(info_type, InfoValue(info_type))
       /\ ValidatorOnly
    \/ \E side \in {ROAD_ID, HOME_ID} :
          /\ StreamTakesLine
          /\ StatBline("a", side, 1, 0,
                       [k \in BlineKeys \cup {"2B", "3B", "HR"} |->
                           IF k \in BlineKeys THEN Lit(1) ELSE Lit(0)])
          /\ ValidatorOnly
    \/ /\ StreamTakesLine
       /\ StatDline("a", ROAD_ID, 1, [k \in DlineKeys |-> Lit(0)])
       /\ ValidatorOnly
    \/ \E side \in {ROAD_ID, HOME_ID} :
          /\ StreamTakesLine
          /\ StatPline(IF side = ROAD_ID THEN "a" ELSE "c", side,
                       [k \in PitchingKeys |-> Lit(1)])
          /\ ValidatorOnly
    \/ StreamTakesLine /\ StatPhline("c", HOME_ID) /\ ValidatorOnly
    \/ StreamTakesLine /\ StatPrline("c", HOME_ID) /\ ValidatorOnly
    \/ \E side \in {ROAD_ID, HOME_ID} :
          StreamTakesLine /\ LineScore(side, <<Lit(1)>>) /\ ValidatorOnly
    \/ StreamTakesLine /\ Event("dpline", ROAD_ID, <<"a">>) /\ ValidatorOnly
    \/ \E side \in {ROAD_ID, HOME_ID} :
          /\ number_of_box_scores_scanned > 0
          /\ game.reported[Lookup(side)] = << >>
          /\ TeamStat(side, [k \in StatsKeys |-> Lit(1)])
          /\ ValidatorOnly
    \/ EndOfStream /\ ValidatorOnly

SpecStream == InitStream /\ [][NextStream]_vars

\* ---------------------------------------------------------- SpecPitchers
\* The validator on one-game files whose batter lines of the focus side and
\* pitcher lines of the opposing side vary in Runs or in Hits.
SidePlayer(side) == IF side = ROAD_ID THEN "a" ELSE "c"
OtherSide(side) == IF side = ROAD_ID THEN HOME_ID ELSE ROAD_ID
PitcherScenarios == [stat : {"Runs", "Hits"}, side : {ROAD_ID, HOME_ID}, bg : BgLits]

InitPitchers ==
    /\ InitCC /\ focus \in PitcherScenarios
    /\ InitLD
    /\ InitGB
    /\ InitSP /\ sp_focus = NoScenario

NextPitchers ==
    \/ Version /\ ValidatorOnly
    \/ game.lines = 0 /\ Info("visteam", "BOS") /\ ValidatorOnly
    \/ game.lines = 0 /\ Info("hometeam", "NYY") /\ ValidatorOnly
    \/ \E x \in FocusLits :
          /\ TakesLine
          /\ StatBline(SidePlayer(focus.side), focus.side, 1, 0,
                       FocusFields(BlineKeys \cup {"2B", "3B", "HR"}, x))
          /\ ValidatorOnly
    \/ \E x \in FocusLits :
          /\ TakesLine
          /\ StatPline(SidePlayer(OtherSide(focus.side)), OtherSide(focus.side),
                       FocusFields(PitchingKeys, x))
          /\ ValidatorOnly
    \/ EndOfStream /\ ValidatorOnly

SpecPitchers == InitPitchers /\ [][NextPitchers]_vars

\* --------------------------------------------------------- SpecLinescore
\* The validator on games with line records of either side, of zero to three
\* innings, and teamstat records that report the runs of either side; the
\* winning and losing pitchers are declared or not.
InningCounts == {0, 1, 2, 3}
\* a line score of len innings whose runs were all scored in the last one
Innings(len, x) == [i \in 1..len |-> IF i = len THEN Lit(x) ELSE Lit(0)]
LineScores == {Innings(len, x) : len \in InningCounts, x \in {0, MaxStat}}
DecisionOrder == <<"wp", "lp">>

InitLinescore ==
    /\ InitCC /\ focus = [stat |-> "Runs", side |-> ROAD_ID, bg |-> Lit(0)]
    /\ InitLD
    /\ InitGB
    /\ InitSP /\ sp_focus = NoScenario

\* the next of the info,wp and info,lp records of the game
NextDecision ==
    /\ number_of_box_scores_scanned > 0
    /\ game.lines = 0
    /\ Cardinality(game.infos \cap {"wp", "lp"}) < Len(DecisionOrder)
    /\ LET info_type == DecisionOrder[Cardinality(game.infos \cap {"wp", "lp"}) + 1]
       IN  Info(info_type, InfoValue(info_type))

NextLinescore ==
    \/ Version /\ ValidatorOnly
    \/ game.lines = 0 /\ game.infos = {} /\ Info("visteam", "BOS") /\ ValidatorOnly
    \/ game.lines = 0 /\ game.infos = {"visteam"} /\ Info("hometeam", "NYY")
          /\ ValidatorOnly
    \/ NextDecision /\ ValidatorOnly
    \/ \E side \in {ROAD_ID, HOME_ID}, innings \in LineScores :
          TakesLine /\ LineScore(side, innings) /\ ValidatorOnly
    \/ \E side \in {ROAD_ID, HOME_ID}, r \in 0..MaxStat :
          /\ TakesTeamStat(side)
          /\ TeamStat(side, [k \in StatsKeys |-> IF k = "Runs" THEN Lit(r) ELSE Lit(0)])
          /\ ValidatorOnly
    \/ EndOfStream /\ ValidatorOnly

SpecLinescore == InitLinescore /\ [][NextLinescore]_vars

\* ------------------------------------------------------------- SpecOrder
\* The validator on games whose batter lines vary in batting-order position
\* and substitution sequence, the position 0 and the value 1000 included.
OrderPositions == {0, 1, 2, 9}
OrderSequences == {0, 1, 3, 100}

InitOrder ==
    /\ InitCC /\ focus = [stat |-> "AB", side |-> ROAD_ID, bg |-> Lit(0)]
    /\ InitLD
    /\ InitGB
    /\ InitSP /\ sp_focus = NoScenario

NextOrder ==
    \/ Version /\ ValidatorOnly
    \/ game.lines = 0 /\ game.infos = {} /\ Info("visteam", "BOS") /\ ValidatorOnly
    \/ game.lines = 0 /\ game.infos = {"visteam"} /\ Info("hometeam", "NYY")
          /\ ValidatorOnly
    \/ \E side \in {ROAD_ID, HOME_ID}, pos \in OrderPositions, seq \in OrderSequences :
          /\ TakesLine
          /\ StatBline(SidePlayer(side), side, pos, seq,
                       [k \in BlineKeys \cup {"2B", "3B", "HR"} |-> Lit(0)])
          /\ ValidatorOnly
    \/ EndOfStream /\ ValidatorOnly

SpecOrder == InitOrder /\ [][NextOrder]_vars

\* -------------------------------------------------------------- SpecOuts
\* The validator on games with a line record of the focus side, and pitcher
\* lines and a teamstat record of the opposing side that vary in outs and in
\* putouts.
OutsValues == {MISSING, 0, 1, 2, 3, 4, 6}
PutoutValues == {0, 3}

InitOuts ==
    /\ InitCC
    /\ focus \in [stat : {"Outs"}, side : {ROAD_ID, HOME_ID}, bg : {Lit(0)}]
    /\ InitLD
    /\ InitGB
    /\ InitSP /\ sp_focus = NoScenario

NextOuts ==
    \/ Version /\ ValidatorOnly
    \/ game.lines = 0 /\ game.infos = {} /\ Info("visteam", "BOS") /\ ValidatorOnly
    \/ game.lines = 0 /\ game.infos = {"visteam"} /\ Info("hometeam", "NYY")
          /\ ValidatorOnly
    \/ \E len \in InningCounts :
          TakesLine /\ LineScore(focus.side, Innings(len, 0)) /\ ValidatorOnly
    \/ \E outs \in OutsValues :
          /\ TakesLine
          /\ StatPline(SidePlayer(OtherSide(focus.side)), OtherSide(focus.side),
                       [k \in PitchingKeys |-> IF k = "Outs" THEN Lit(outs) ELSE Lit(0)])
          /\ ValidatorOnly
    \/ \E po \in PutoutValues :
          /\ TakesTeamStat(OtherSide(focus.side))
          /\ TeamStat(OtherSide(focus.side),
                      [k \in StatsKeys |-> IF k = "Putouts" THEN Lit(po) ELSE Lit(0)])
          /\ ValidatorOnly
    \/ EndOfStream /\ ValidatorOnly

SpecOuts == InitOuts /\ [][NextOuts]_vars

\* --------------------------------------------------------- SpecPositions
\* The validator on games whose batter lines and fielder lines carry
\* positions inside and outside the lists clear_stats allocates.
BattingPositions == {0, 1, 10}
FieldingPositions == {0, 1, 11, 15}

InitPositions ==
    /\ InitCC /\ focus = [stat |-> "AB", side |-> ROAD_ID, bg |-> Lit(0)]
    /\ InitLD
    /\ InitGB
    /\ InitSP /\ sp_focus = NoScenario

NextPositions ==
    \/ Version /\ ValidatorOnly
    \/ game.lines = 0 /\ game.infos = {} /\ Info("visteam", "BOS") /\ ValidatorOnly
    \/ game.lines = 0 /\ game.infos = {"visteam"} /\ Info("hometeam", "NYY")
          /\ ValidatorOnly
    \/ \E side \in {ROAD_ID, HOME_ID}, pos \in BattingPositions :
          /\ TakesLine
          /\ StatBline(SidePlayer(side), side, pos, 0,
                       [k \in BlineKeys \cup {"2B", "3B", "HR"} |-> Lit(0)])
          /\ ValidatorOnly
    \/ \E side \in {ROAD_ID, HOME_ID}, pos \in FieldingPositions :
          /\ TakesLine
          /\ StatDline(SidePlayer(side), side, pos, [k \in DlineKeys |-> Lit(0)])
          /\ ValidatorOnly
    \/ EndOfStream /\ ValidatorOnly

SpecPositions == InitPositions /\ [][NextPositions]_vars

\* -------------------------------------------------------------- SpecLoad
\* The loader on files whose games have their whole header or none of it,
\* with stat records of every kind and side fields 0, 1, 2 or text.
InitLoad ==
    /\ InitCC /\ focus = [stat |-> "AB", side |-> ROAD_ID, bg |-> Lit(1)]
    /\ InitLD
    /\ InitGB
    /\ InitSP /\ sp_focus = NoScenario

HeaderLength == Cardinality(ld_game.infos)
LoadTakesLine ==
    /\ db_box_scores_scanned > 0
    /\ ld_game.lines < MaxLines
    /\ HeaderLength \in {0, Len(InfoOrder)}

NextLoad ==
    \/ LdVersion /\ LoaderOnly
    \/ /\ db_box_scores_scanned > 0
       /\ HeaderLength < Len(InfoOrder)
       /\ LET info_type == InfoOrder[HeaderLength + 1]
          IN  LdInfo(info_type, InfoValue(info_type))
       /\ LoaderOnly
    \/ \E side \in {Lit(ROAD_ID), Lit(HOME_ID), Lit(2), BadLit} :
          /\ LoadTakesLine
          /\ LdStatBline("a", side, Lit(1), Lit(0), [k \in BattingColumns |-> Lit(1)])
          /\ LoaderOnly
    \/ \E side \in {Lit(ROAD_ID), Lit(2)} :
          /\ LoadTakesLine
          /\ LdStatPline("a", side, Lit(0), [k \in PitchingColumns |-> Lit(1)])
          /\ LoaderOnly
    \/ \E sub_line_type \in {"phline", "prline"} :
          /\ LoadTakesLine
          /\ LdStatPinch(sub_line_type, "c", "9", Lit(HOME_ID))
          /\ LoaderOnly
    \/ \E side \in {Lit(ROAD_ID), Lit(2)} :
          /\ LoadTakesLine
          /\ LdStatDline("a", side, Lit(1), <<"a", side, Lit(0), Lit(1)>>)
          /\ LoaderOnly
    \/ LoadTakesLine /\ LdLine(Lit(ROAD_ID), <<Lit(1)>>) /\ LoaderOnly
    \/ LoadTakesLine /\ LdCom("rain") /\ LoaderOnly
    \/ LdEndOfStream /\ LoaderOnly

SpecLoad == InitLoad /\ [][NextLoad]_vars

\* ----------------------------------------------------------- SpecDefense
\* The loader on games with a whole header in which one road player has
\* fielder lines and pinch lines in any order.
DefenseCodes == {Lit(4), Lit(6), Lit(12)}

InitDefense ==
    /\ InitCC /\ focus = [stat |-> "AB", side |-> ROAD_ID, bg |-> Lit(1)]
    /\ InitLD
    /\ InitGB
    /\ InitSP /\ sp_focus = NoScenario

NextDefense ==
    \/ LdVersion /\ LoaderOnly
    \/ /\ db_box_scores_scanned > 0
       /\ ld_game.appearances = NoAppearances
       /\ HeaderLength < Len(InfoOrder)
       /\ LET info_type == InfoOrder[HeaderLength + 1]
          IN  LdInfo(info_type, InfoValue(info_type))
       /\ LoaderOnly
    \/ \E sub_line_type \in {"phline", "prline"} :
          /\ LoadTakesLine /\ HeaderLength = Len(InfoOrder)
          /\ LdStatPinch(sub_line_type, "a", "9", Lit(ROAD_ID))
          /\ LoaderOnly
    \/ \E pos \in DefenseCodes :
          /\ LoadTakesLine /\ HeaderLength = Len(InfoOrder)
          /\ LdStatDline("a", Lit(ROAD_ID), pos, <<"a", Lit(ROAD_ID), Lit(0), pos>>)
          /\ LoaderOnly
    \/ LdEndOfStream /\ LoaderOnly

SpecDefense == InitDefense /\ [][NextDefense]_vars

\* ------------------------------------------------------------- SpecLines
\* The loader on games with a whole header followed by line records of
\* either side, of one to MaxLines + 1 innings.
LineRecords == {Innings(len, x) : len \in 1..(MaxLines + 1), x \in {0, 1}}

InitLines ==
    /\ InitCC /\ focus = [stat |-> "AB", side |-> ROAD_ID, bg |-> Lit(1)]
    /\ InitLD
    /\ InitGB
    /\ InitSP /\ sp_focus = NoScenario

NextLines ==
    \/ LdVersion /\ LoaderOnly
    \/ /\ db_box_scores_scanned > 0
       /\ ld_game.scored = NotScored
       /\ HeaderLength < Len(InfoOrder)
       /\ LET info_type == InfoOrder[HeaderLength + 1]
          IN  LdInfo(info_type, InfoValue(info_type))
       /\ LoaderOnly
    \/ \E side \in {ROAD_ID, HOME_ID}, innings \in LineRecords :
          /\ LoadTakesLine /\ HeaderLength = Len(InfoOrder)
          /\ LdLine(Lit(side), innings)
          /\ LoaderOnly
    \/ LdEndOfStream /\ LoaderOnly

SpecLines == InitLines /\ [][NextLines]_vars

\* --------------------------------------------------------------- SpecBox
\* The entry tool writes a file of games (hit batters and comments), a
\* further comment may be added to a game by hand, and the box generator
\* then reads the file from its first record to its end.
InitBox ==
    /\ InitCC /\ focus = [stat |-> "AB", side |-> ROAD_ID, bg |-> Lit(1)]
    /\ InitLD
    /\ InitGB
    /\ InitSP /\ sp_focus = NoScenario

NextBox ==
    \/ EnStartGame /\ BoxOnly
    \/ \E pitcher \in PlayerIds, batter \in PlayerIds, number_of_plays \in 1..2 :
          get_batting_play_info(pitcher, batter, number_of_plays) /\ BoxOnly
    \/ \E comments \in EntryComments : EnWriteGame(comments) /\ BoxOnly
    \/ \E text \in AddedComments : EfileCom(text) /\ BoxOnly
    \/ GbVersion /\ BoxOnly
    \/ GbEvent /\ BoxOnly
    \/ GbCom /\ BoxOnly
    \/ GbEndOfFile /\ BoxOnly

SpecBox == InitBox /\ [][NextBox]_vars

\* ------------------------------------------------------------ SpecSplits
\* The aggregator on a database that holds rows of one table: for each
\* player up to MaxLines game rows, which vary in one column (or in the
\* team, or in the pitcher's role) against a background value.
PitchingRead ==
    {"outs", "bfp", "hits", "hr", "runs", "earned_runs", "walks",
     "intentional_walks", "strikeouts", "hbp", "wp", "balk"}
SplitsScenarios ==
    [section : {"batting"}, stat : BattingColumns \cup {"team", "example"}, bg : {0, 1}]
    \cup
    [section : {"pitching"}, stat : PitchingRead \cup {"team", "role"}, bg : {0, 1}]

StatValues == (-2)..MaxStat
RosterTeam(pid) == CHOOSE t \in Teams : pid \in player_info(t)
Roles == [starting_pitcher : BOOLEAN, winning_pitcher : BOOLEAN, losing_pitcher : BOOLEAN]
NoDecision == [starting_pitcher |-> TRUE, winning_pitcher |-> FALSE, losing_pitcher |-> FALSE]

BattingRecord(team, stats) == [pid |-> player, my_team |-> team, stats |-> stats]
PitchingRecord(team, role, stats) ==
    [pid |-> player, my_team |-> team, stats |-> stats,
     starting_pitcher |-> role.starting_pitcher,
     winning_pitcher |-> role.winning_pitcher,
     losing_pitcher |-> role.losing_pitcher]

SplitsFields(columns, x) ==
    [k \in columns |-> IF k = sp_focus.stat THEN x ELSE sp_focus.bg]
\* the rows of the scenario "hits [2, MISSING] against at-bats [4, 4]"
ExampleFields(h) ==
    [k \in BattingColumns |-> IF k = "hits" THEN h ELSE IF k = "ab" THEN 4 ELSE 0]

GeneratedBatting ==
    CASE sp_focus.stat = "team" ->
           {BattingRecord(t, SplitsFields(BattingColumns, 0)) : t \in Teams}
      [] sp_focus.stat = "example" ->
           {BattingRecord(RosterTeam(player), ExampleFields(h)) : h \in {2, MISSING}}
      [] OTHER ->
           {BattingRecord(RosterTeam(player), SplitsFields(BattingColumns, x)) :
               x \in StatValues}
GeneratedPitching ==
    CASE sp_focus.stat = "team" ->
           {PitchingRecord(t, NoDecision, SplitsFields(PitchingColumns, 0)) : t \in Teams}
      [] sp_focus.stat = "role" ->
           {PitchingRecord(RosterTeam(player), role, SplitsFields(PitchingColumns, 0)) :
               role \in Roles}
      [] OTHER ->
           {PitchingRecord(RosterTeam(player), NoDecision,
                           SplitsFields(PitchingColumns, x)) : x \in StatValues}

PidIndex(pid) == CHOOSE i \in 1..Len(PidOrder) : PidOrder[i] = pid
\* the next player of a table comes after the one before in the order of ids
ComesNext(pid) == IF count = 0 THEN TRUE ELSE PidIndex(pid) > PidIndex(player)

InitSplits ==
    /\ InitCC /\ focus = [stat |-> "AB", side |-> ROAD_ID, bg |-> Lit(1)]
    /\ InitLD
    /\ InitGB
    /\ InitSP /\ sp_focus \in SplitsScenarios

NextSplits ==
    \/ \E pid \in PlayerIds :
          /\ sp_focus.section = "batting" /\ ComesNext(pid)
          /\ BattingPlayer(pid) /\ AggregatorOnly
    \/ /\ sp_pc = "batting_player" /\ Len(sp_lines) < MaxLines
       /\ \E rec \in GeneratedBatting : BattingGameRecord(rec)
       /\ AggregatorOnly
    \/ BattingRow /\ AggregatorOnly
    \/ PitchingSection /\ AggregatorOnly
    \/ \E pid \in PlayerIds :
          /\ sp_focus.section = "pitching" /\ ComesNext(pid)
          /\ PitchingPlayer(pid) /\ AggregatorOnly
    \/ /\ sp_pc = "pitching_player" /\ Len(sp_lines) < MaxLines
       /\ \E rec \in GeneratedPitching : PitchingGameRecord(rec)
       /\ AggregatorOnly
    \/ PitchingRow /\ AggregatorOnly
    \/ SplitsDone /\ AggregatorOnly

SpecSplits == InitSplits /\ [][NextSplits]_vars

\* ------------------------------------------------- properties: SpecTotals
Validated == sealed.none = FALSE
TeamMismatchesFor(tm, k) ==
    {d \in printed : d.kind = "MISMATCH_TEAM" /\ d.tm = tm /\ d.what = k}
Values(tm, k) == sealed.game.contrib[tm][k]
HasMissing(tm, k) == \E i \in 1..Len(Values(tm, k)) : Values(tm, k)[i] = MISSING
AllCounts(tm, k) == \A i \in 1..Len(Values(tm, k)) : Values(tm, k)[i] >= 0
AllStatValues(tm, k) == \A i \in 1..Len(Values(tm, k)) : Values(tm, k)[i] >= MISSING
HasReported(tm) == Len(sealed.game.reported[tm]) = 1
Reported(tm, k) == sealed.game.reported[tm][1][k]

\* C1: when a game is validated, a stat of a side for which some player line
\* of the game carries MISSING (-1) has the summed total MISSING, wherever
\* that line stands among the side's lines, and no team-vs-player mismatch
\* is reported for it.
C1_MissingMakesTotalMissing ==
    Validated =>
        \A tm \in Sides, k \in StatsKeys :
            (HasMissing(tm, k) /\ AllStatValues(tm, k)) =>
                /\ sealed.stats[tm][k] = MISSING
                /\ TeamMismatchesFor(tm, k) = {}

\* C9 (validator part): a negative literal counts as MISSING - right after a
\* player line whose value for a stat is negative, the running total of that
\* stat is MISSING - and no record is refused for a field int() cannot parse.
C9_NegativeOrUnparsedIsMissing ==
    /\ \A tm \in Sides, k \in StatsKeys :
          LET vs == game.contrib[tm][k] IN
          (cc_pc = "reading" /\ vs # << >> /\ vs[Len(vs)] < 0)
              => stats_list[tm][k] = MISSING
    /\ Traceback("ValueError") \notin printed

AtGameStart == cc_pc = "reading" /\ ~game.records

\* C3: when a version record has started the second or a later game, every
\* per-game accumulator holds its initial value before the game's first
\* record: team names, date, game number, usedh, winning and losing pitcher
\* ids, the tables, lists and sums, and the linescore total and inning count
\* of both sides.
C3_AccumulatorsInitialAtVersion ==
    (AtGameStart /\ number_of_box_scores_scanned >= 2) =>
        /\ s_team_names = [tm \in Sides |-> ""]
        /\ s_date_of_game = ""
        /\ s_game_number_this_date = ""
        /\ s_usedh = "false"
        /\ s_wp_id = UNDEF
        /\ s_lp_id = UNDEF
        /\ batting_order_list = InitBattingOrderList
        /\ batting_order_numbers = [tm \in Sides |-> << >>]
        /\ players_in_batting_order = EmptyCounts
        /\ list_of_pitchers = EmptyCounts
        /\ list_of_pinch_hitters = EmptyCounts
        /\ list_of_pinch_runners = [tm \in Sides |-> << >>]
        /\ pos_list = InitPosList
        /\ stats_list = InitStats
        /\ pitching_stats_list = InitPitchingStats
        /\ team_stats_list = InitTeamStats
        /\ linescore_total = [tm \in Sides |-> 0]
        /\ linescore_innings = [tm \in Sides |-> 0]

\* C4: for a stream of n version records (n >= 0) the validator has run
\* exactly n times when the run is done, and the count of box scores never
\* decreases.
C4_OneCheckPerVersion ==
    /\ [](cc_pc = "done" => checks_run = number_of_box_scores_scanned)
    /\ [][number_of_box_scores_scanned' >= number_of_box_scores_scanned]_vars

\* --------------------------------------------------- properties: SpecLoad
UnresolvedSide(side) == ~side.ok \/ side.n \notin {ROAD_ID, HOME_ID}

\* C8: a stat record whose side field is neither 0 nor 1, or that precedes
\* its own game's visteam and hometeam records, aborts the run, and no such
\* record is resolved to a team (the home team, or a team of the game before).
C8_UnresolvedSideAborts ==
    /\ (ld_last.stat /\ (UnresolvedSide(ld_last.side) \/ ~ld_last.named))
          => ld_pc = "aborted"
    /\ \A h \in ld_attributed : ~UnresolvedSide(h.side) /\ h.named

\* ------------------------------------------------- properties: SpecSplits
AtBattingRow == sp_pc = "batting" /\ sp_lines # << >> /\ Len(output_file) = 1
AtPitchingRow == sp_pc = "pitching" /\ sp_lines # << >> /\ Len(output_file) = 1
InBattingWindow == sp_pc = "batting_player" \/ AtBattingRow
InPitchingWindow == sp_pc = "pitching_player" \/ AtPitchingRow

\* the values of column k in the game rows of the player, in order; a
\* value is MISSING when it is negative
Column(k) == [i \in 1..Len(sp_lines) |-> sp_lines[i].stats[k]]
AllKnown(k) == \A i \in 1..Len(sp_lines) : sp_lines[i].stats[k] >= 0
KnownSum(k) == SeqSum([i \in 1..Len(sp_lines) |->
                          IF sp_lines[i].stats[k] >= 0 THEN sp_lines[i].stats[k] ELSE 0])
KnownCount(k) == Cardinality({i \in 1..Len(sp_lines) : sp_lines[i].stats[k] >= 0})

StatIndex(list, stat) == CHOOSE i \in 1..Len(list) : list[i] = stat
BattingCell(stat) == output_file[1][2 + StatIndex(list_of_batting_stats, stat)]
PitchingCell(stat) == output_file[1][2 + StatIndex(list_of_pitching_stats, stat)]

\* C2: for the game rows of one player and any stat X: the games count is the
\* number of rows; X is complete (its occurrence count equals the games
\* count) iff no row has X MISSING; the sum of X is the sum over the rows
\* where X is not MISSING, and the occurrence count is their number.
C2_CompleteIffNoneMissing ==
    /\ InBattingWindow =>
          /\ m_batting_stats_counters["games"] = Len(sp_lines)
          /\ \A k \in BattingColumns :
                /\ (m_batting_stats_counters[k] = m_batting_stats_counters["games"])
                      <=> AllKnown(k)
                /\ m_batting_stats[k] = KnownSum(k)
                /\ m_batting_stats_counters[k] = KnownCount(k)
    /\ InPitchingWindow =>
          /\ m_pitching_stats_counters["games"] = Len(sp_lines)
          /\ \A k \in PitchingRead :
                /\ (m_pitching_stats_counters[k] = m_pitching_stats_counters["games"])
                      <=> AllKnown(k)
                /\ m_pitching_stats[k] = KnownSum(k)
                /\ m_pitching_stats_counters[k] = KnownCount(k)

\* a batting row written for rows of which one has the stat MISSING and
\* another has it positive: the sum is flagged partial
C2_Witness ==
    /\ AtBattingRow
    /\ \E k \in BattingColumns :
          /\ ~AllKnown(k) /\ KnownSum(k) > 0
          /\ BattingCell(k) = ToString(KnownSum(k)) \o "*"

\* C5: in a batting row BA is produced iff hits and at-bats are complete, TB
\* iff hits, doubles, triples and home runs are, SLG iff at-bats, hits,
\* doubles, triples and home runs are; otherwise the cell is the empty
\* string.  For hits [2, MISSING] and at-bats [4, 4] there is no BA and hits
\* is the flagged partial sum.
C5_BattingDerivedGated ==
    AtBattingRow =>
        /\ BattingCell("BA") # "" <=> (AllKnown("hits") /\ AllKnown("ab"))
        /\ BattingCell("TB") # "" <=>
              \A k \in {"hits", "doubles", "triples", "hr"} : AllKnown(k)
        /\ BattingCell("SLG") # "" <=>
              \A k \in {"ab", "hits", "doubles", "triples", "hr"} : AllKnown(k)
        /\ (Column("hits") = <<2, MISSING>> /\ Column("ab") = <<4, 4>>) =>
              (BattingCell("BA") = "" /\ BattingCell("hits") = "2*")

\* the row of the example
C5_Witness ==
    /\ AtBattingRow
    /\ Column("hits") = <<2, MISSING>> /\ Column("ab") = <<4, 4>>
    /\ BattingCell("BA") = "" /\ BattingCell("hits") = "2*"
    /\ BattingCell("TB") = "" /\ BattingCell("SLG") = ""

\* C6: in a pitching row each derived stat is produced only when every input
\* of its formula is complete, outs included for every per-innings rate.
PitchingInputs(stat) ==
    CASE stat = "ERA"  -> {"earned_runs", "outs"}
      [] stat = "WHIP" -> {"walks", "hits", "outs"}
      [] stat = "H9"   -> {"hits", "outs"}
      [] stat = "HR9"  -> {"hr", "outs"}
      [] stat = "BB9"  -> {"walks", "outs"}
      [] stat = "SO9"  -> {"strikeouts", "outs"}
      [] stat = "SO/W" -> {"strikeouts", "walks"}
C6_PitchingDerivedGated ==
    AtPitchingRow =>
        \A stat \in {"ERA", "WHIP", "H9", "HR9", "BB9", "SO9", "SO/W"} :
            PitchingCell(stat) # "" => \A k \in PitchingInputs(stat) : AllKnown(k)

\* C7: no row computation raises on a zero denominator; a ratio that is
\* produced with a zero denominator is 0: BA, SLG and OBP, the rates over
\* outs, SO/W; the win-loss percentage is always produced.
BattingDenominator(stat) ==
    CASE stat = "BA"  -> m_batting_stats["ab"]
      [] stat = "SLG" -> m_batting_stats["ab"]
      [] stat = "OBP" -> m_batting_stats["ab"] + m_batting_stats["hits"]
                         + m_batting_stats["bb"] + m_batting_stats["hbp"] + sf_adjusted
PitchingDenominator(stat) ==
    CASE stat = "WLPCT" -> m_pitching_stats["games_won"] + m_pitching_stats["games_lost"]
      [] stat = "SO/W"  -> m_pitching_stats["walks"]
      [] OTHER          -> m_pitching_stats["outs"]
ZeroCells == {".000", "0.000", "0.0"}
C7_ZeroDenominatorIsZero ==
    /\ Traceback(ZeroDivisionError) \notin sp_printed
    /\ AtBattingRow =>
          \A stat \in {"BA", "SLG", "OBP"} :
              (BattingDenominator(stat) = 0 /\ BattingCell(stat) # "")
                  => BattingCell(stat) \in ZeroCells
    /\ AtPitchingRow =>
          /\ PitchingCell("WLPCT") # ""
          /\ \A stat \in {"WLPCT", "ERA", "WHIP", "H9", "HR9", "BB9", "SO9", "SO/W"} :
                (PitchingDenominator(stat) = 0 /\ PitchingCell(stat) # "")
                    => PitchingCell(stat) \in ZeroCells

\* a pitching row with no outs, no walks and no decision, all complete
C7_Witness ==
    /\ AtPitchingRow
    /\ m_pitching_stats["outs"] = 0 /\ AllKnown("outs")
    /\ m_pitching_stats["hits"] > 0
    /\ PitchingCell("WLPCT") = ".000"
    /\ PitchingCell("ERA") = "0.000"
    /\ PitchingCell("H9") = "0.0"
    /\ PitchingCell("SO/W") = "0.0"

\* ----------------------------------------------- properties: SpecPitchers
\* the game the latest step validated, its validation having run to its end
Completed == Validated /\ ~sealed.raised
PitcherMismatchesFor(tm, k) ==
    {d \in printed : d.kind = "MISMATCH_PITCHERS" /\ d.tm = tm /\ d.what = k}
Batted(tm, k) == sealed.game.contrib[tm][k]
Allowed(tm, k) == sealed.game.pitched[tm][k]
NoneMissing(vs) == \A i \in 1..Len(vs) : vs[i] # MISSING
NoneBelowMissing(vs) == \A i \in 1..Len(vs) : vs[i] >= MISSING

\* C11: for Runs and Hits and each side S of a validated game, a
\* batter-vs-opposing-pitcher mismatch is reported iff neither S's batter
\* lines nor the opposing pitcher lines carry MISSING for the stat and the
\* two sums differ (the comparison is skipped when either has MISSING).
C11_BattersVsOpposingPitchers ==
    Completed =>
        \A tm \in Sides, k \in {"Runs", "Hits"} :
            (NoneBelowMissing(Batted(tm, k)) /\ NoneBelowMissing(Allowed(Other(tm), k))) =>
                (PitcherMismatchesFor(tm, k) # {}
                 <=> /\ NoneMissing(Batted(tm, k))
                     /\ NoneMissing(Allowed(Other(tm), k))
                     /\ SeqSum(Batted(tm, k)) # SeqSum(Allowed(Other(tm), k)))

\* ---------------------------------------------- properties: SpecLinescore
\* the line record of a side that counts (the latest one)
HasLine(tm) == sealed.game.scored[tm] # << >>
LineOf(tm) == sealed.game.scored[tm][1]
ReportedRuns(tm) == Reported(tm, "Runs")
LengthMismatches == {d \in printed : d.kind = "MISMATCH_LINESCORE_LENGTH"}
RunsMismatchesFor(tm) == {d \in printed : d.kind = "MISMATCH_LINESCORE_RUNS" /\ d.tm = tm}

\* C12: for a validated game with a line record and a teamstat record of
\* both sides, the linescore-length check passes (no length mismatch is
\* reported) iff road innings = home innings, or road innings = home
\* innings + 1 and the home side's reported runs exceed the road side's.
C12_LinescoreLength ==
    (Completed /\ \A tm \in Sides : HasLine(tm) /\ HasReported(tm)) =>
        (LengthMismatches = {}
         <=> \/ Len(LineOf("road")) = Len(LineOf("home"))
             \/ /\ Len(LineOf("road")) = Len(LineOf("home")) + 1
                /\ ReportedRuns("home") > ReportedRuns("road"))

\* a game whose home side won without batting in the last inning passes
C12_Witness ==
    /\ Completed /\ \A tm \in Sides : HasLine(tm) /\ HasReported(tm)
    /\ Len(LineOf("road")) = Len(LineOf("home")) + 1
    /\ ReportedRuns("home") > ReportedRuns("road")
    /\ LengthMismatches = {}

\* a game whose road line is one inning longer although the home side did
\* not win is reported
C12_WitnessReported ==
    /\ Completed /\ \A tm \in Sides : HasLine(tm) /\ HasReported(tm)
    /\ Len(LineOf("road")) = Len(LineOf("home")) + 1
    /\ ReportedRuns("home") <= ReportedRuns("road")
    /\ LengthMismatches # {}

\* C18: for each side of a validated game that has a line record and a
\* teamstat record, a linescore-runs mismatch is reported iff the sum of the
\* per-inning runs of the line record differs from the reported team runs.
C18_LinescoreRuns ==
    Completed =>
        \A tm \in Sides :
            (HasLine(tm) /\ HasReported(tm)) =>
                (RunsMismatchesFor(tm) # {} <=> SeqSum(LineOf(tm)) # ReportedRuns(tm))

\* a game whose inning sums, not all zero, equal the reported runs on both
\* sides: no such diagnostic
C18_Witness ==
    /\ Completed
    /\ \A tm \in Sides : /\ HasLine(tm) /\ HasReported(tm)
                         /\ SeqSum(LineOf(tm)) = ReportedRuns(tm)
                         /\ RunsMismatchesFor(tm) = {}
    /\ \E tm \in Sides : Len(LineOf(tm)) > 1 /\ SeqSum(LineOf(tm)) > 0

\* -------------------------------------------------- properties: SpecOrder
\* the values position * 100 + sequence of a side's batter lines, ascending
Ascending(tm) == SortSeq(sealed.numbers[tm], LAMBDA x, y : x < y)
Predecessor(tm, i) == IF i = 1 THEN 0 ELSE Ascending(tm)[i - 1]
\* the value is the predecessor's substitute or the next slot's starter
InSequence(tm, i) ==
    \/ Ascending(tm)[i] = Predecessor(tm, i) + 1
    \/ Ascending(tm)[i] = ((Predecessor(tm, i) \div 100) * 100) + 100
UnexpectedAt(tm, i) ==
    Diag("UNEXPECTED_BATTING_ORDER_SEQUENCE", tm, ToString(i),
         Predecessor(tm, i), Ascending(tm)[i]) \in printed
InvalidAt(tm, i) ==
    Diag("INVALID_BATTING_ORDER_POSITION", tm, ToString(i), Ascending(tm)[i], 0)
        \in printed
ValidPosition(v) == v >= 100 /\ v < 1000

\* C13 as stated: for each side of a validated game and each value of the
\* ascending list, an unexpected-sequence diagnostic is emitted iff the value
\* is neither its predecessor + 1 nor the next multiple of 100 above the
\* predecessor's position.
C13_EveryValue ==
    Completed =>
        \A tm \in Sides : \A i \in 1..Len(Ascending(tm)) :
            UnexpectedAt(tm, i) <=> ~InSequence(tm, i)

\* C13 amended: the same for the values from 100 to 999; a value below 100
\* or from 1000 on is reported as an invalid batting order position instead,
\* never as an unexpected sequence, and is the predecessor of the next value
\* all the same.
C13_ValidPositions ==
    Completed =>
        \A tm \in Sides : \A i \in 1..Len(Ascending(tm)) :
            IF ValidPosition(Ascending(tm)[i])
            THEN (UnexpectedAt(tm, i) <=> ~InSequence(tm, i)) /\ ~InvalidAt(tm, i)
            ELSE InvalidAt(tm, i) /\ ~UnexpectedAt(tm, i)

\* batter lines entered out of order, 103 before 100: one diagnostic, at 103
C13_Witness ==
    /\ Completed
    /\ sealed.numbers["road"] = <<103, 100>>
    /\ ~UnexpectedAt("road", 1) /\ UnexpectedAt("road", 2)

\* ------------------------------------------- properties: duplicate players
\* check_stats got past the winning and losing pitcher lookups (see C17)
DecisionsReadable ==
    \/ sealed.team["road"]["Runs"] = sealed.team["home"]["Runs"]
    \/ sealed.wp # UNDEF /\ sealed.lp # UNDEF
PinchRuns(tm, p) == SeqCount(sealed.pinch_runners[tm], p)
ReportedTimes(kind, tm, p, k) == Diag(kind, tm, p, k, 0) \in printed

\* C14: for each side of a validated game, an id occurring k > 1 times in
\* the batting order, the pitchers, the pinch-hitters or the pinch-runners is
\* reported with the count k of that same list, an id in both the
\* pinch-hitters and the pinch-runners is reported as a conflict, and the
\* validation goes on after each report.
C14_DuplicatesReported ==
    (Validated /\ DecisionsReadable) =>
        /\ Traceback("KeyError") \notin printed
        /\ \A tm \in Sides : \A p \in PlayerIds :
              /\ sealed.batters[tm][p] > 1 =>
                    ReportedTimes("BATTER_MORE_THAN_ONCE", tm, p, sealed.batters[tm][p])
              /\ sealed.pitchers[tm][p] > 1 =>
                    ReportedTimes("PITCHER_MORE_THAN_ONCE", tm, p, sealed.pitchers[tm][p])
              /\ sealed.pinch_hitters[tm][p] > 1 =>
                    ReportedTimes("PH_MORE_THAN_ONCE", tm, p, sealed.pinch_hitters[tm][p])
              /\ PinchRuns(tm, p) > 1 =>
                    ReportedTimes("PR_MORE_THAN_ONCE", tm, p, PinchRuns(tm, p))
              /\ (sealed.pinch_hitters[tm][p] > 0 /\ PinchRuns(tm, p) > 0) =>
                    ReportedTimes("PH_ALSO_PR", tm, p, sealed.pinch_hitters[tm][p])

\* --------------------------------------------------- properties: SpecOuts
InningsMismatchesFor(tm) ==
    {d \in printed : d.tm = tm /\ d.kind \in {"MISMATCH_INNINGS_OUTS",
                                              "MISMATCH_INNINGS_OUTS_PARTIAL"}}
\* the outs of a side's pitchers, summed
OutsOf(tm) == SeqSum(Allowed(tm, "Outs"))
OutsKnown(tm) == NoneMissing(Allowed(tm, "Outs"))
PutoutsOf(tm) == Reported(tm, "Putouts")

RecordLookupFailed ==
    cc_pc = "aborted" /\ sealed = NoGame /\ printed = {Traceback("KeyError")}

\* C16: a player id that is absent from its side's roster never aborts the
\* validation, not even when the line of that player fails a per-player
\* sanity check (hits > at-bats, extra-base hits > hits, strikeouts > outs):
\* no record handler ends the run on the roster lookup.
C16_UnrosteredNeverAborts == ~RecordLookupFailed

\* ---------------------------------------- properties: pitchers of record
Winner ==
    IF sealed.team["road"]["Runs"] > sealed.team["home"]["Runs"] THEN "road"
    ELSE IF sealed.team["home"]["Runs"] > sealed.team["road"]["Runs"] THEN "home"
    ELSE "none"
PitchedFor(tm, p) == p \in PlayerIds /\ sealed.pitchers[tm][p] > 0
DecisionErrors(kind) == {d \in printed : d.kind = kind}

\* C17: for a validated game, when the reported team runs of the two sides
\* differ an error is printed iff the winning pitcher's id is not among the
\* pitchers of the side with more runs, and one iff the losing pitcher's id
\* is not among the pitchers of the side with fewer runs; with equal runs
\* neither is printed; and the check never ends the run, also for a game
\* that declares no winning or losing pitcher.
C17_PitchersOfRecord ==
    Validated =>
        /\ Traceback("NameError") \notin printed
        /\ IF Winner = "none"
           THEN DecisionErrors("WP_NOT_FOUND") = {} /\ DecisionErrors("LP_NOT_FOUND") = {}
           ELSE /\ DecisionErrors("WP_NOT_FOUND") # {} <=> ~PitchedFor(Winner, sealed.wp)
                /\ DecisionErrors("LP_NOT_FOUND") # {}
                      <=> ~PitchedFor(Other(Winner), sealed.lp)

\* ------------------------------------------- properties: on-base percentage
OnBaseComplete == \A k \in {"ab", "hits", "bb", "hbp"} : AllKnown(k)
SacrificeFlies == IF AllKnown("sf") THEN KnownSum("sf") ELSE 0
OnBaseValue ==
    get_pct_as_string(KnownSum("hits") + KnownSum("bb") + KnownSum("hbp"),
                      Whole(KnownSum("ab") + KnownSum("hits") + KnownSum("bb")
                            + KnownSum("hbp") + SacrificeFlies),
                      3, TRUE)

StoresPitchingLine ==
    /\ ld_pc' = "reading"
    /\ ld_last'.stat /\ ld_last'.sub_line_type = "pline"
    /\ session' # session
StoredRows ==
    {row \in BagToSet(session') : CopiesIn(row, session') > CopiesIn(row, session)}

\* C20: a stored pitching line has its winning-pitcher flag set iff its
\* player id is the id given by an info,wp record of the same game that
\* precedes it, and its losing-pitcher flag likewise with info,lp: a pitching
\* line of a game that declares no winning or losing pitcher never gets the
\* flag from an id declared in an earlier game.
C20_DecisionOfSameGame ==
    [][StoresPitchingLine =>
          \A row \in StoredRows :
              /\ row.winning_pitcher
                    <=> ("wp" \in ld_game.infos /\ row.pid = s_winning_pitcher_pid)
              /\ row.losing_pitcher
                    <=> ("lp" \in ld_game.infos /\ row.pid = s_losing_pitcher_pid)]_vars

\* ---------------------------------------------- properties: SpecPositions
\* the run ended while reading a record, on a list index out of range
RecordIndexFailed ==
    cc_pc = "aborted" /\ sealed = NoGame /\ printed = {Traceback("IndexError")}
\* a diagnostic about the position i of side tm other than the reports of
\* positions nobody filled
PositionReported(tm, i) ==
    \E d \in printed :
        /\ d.tm = tm
        /\ d.kind \notin {"MISSING_BATTING_ORDER", "MISSING_DEFENSIVE_POSITION",
                          "TRACEBACK"}
        /\ d.a = i \/ d.b = i

\* C21: a batter line whose batting-order position is outside 1..9 and a
\* fielder line whose position code is outside 1..10 never end the run: the
\* validator reports them as diagnostics when the game is validated.
C21_PositionsReported ==
    /\ ~RecordIndexFailed
    /\ Validated =>
          \A tm \in Sides :
              /\ \A i \in 1..Len(sealed.numbers[tm]) :
                    sealed.numbers[tm][i] \notin 100..999 =>
                        PositionReported(tm, sealed.numbers[tm][i])
              /\ \A i \in DOMAIN sealed.positions[tm] :
                    (sealed.positions[tm][i] /\ i \notin 1..10) =>
                        PositionReported(tm, i)

\* ------------------------------------------ properties: fielder fragments
\* C22: for a player with several fielder lines in one game only the first
\* carries defensive statistics: the putouts, assists and errors of the
\* later ones contribute to no per-side sum, so the side's sum is the value
\* of the player's first line (the games here have fielder lines of one
\* player per side, all values counts).
C22_LaterFragmentsIgnored ==
    Validated =>
        \A tm \in Sides : \A k \in DlineKeys :
            (Len(Values(tm, k)) >= 1 /\ AllCounts(tm, k)) =>
                sealed.stats[tm][k] = Values(tm, k)[1]

\* ------------------------------------------------ properties: SpecDefense
\* the step seals a game: its rows are added to the session
SealsGame ==
    ld_pc = "reading" /\ ld_pc' # "aborted" /\ ld_last' = NoStat /\ session' # session

RECURSIVE Hyphenated(_)
Hyphenated(tokens) ==
    IF tokens = << >> THEN ""
    ELSE IF Len(tokens) = 1 THEN tokens[1]
    ELSE tokens[1] \o "-" \o Hyphenated(Tail(tokens))
\* "ph" / "pr" when the first line of the game naming the player is a pinch line
FirstAppearance(tm, p) ==
    IF ld_game.appearances[tm][p][1] = "phline" THEN <<"ph">>
    ELSE IF ld_game.appearances[tm][p][1] = "prline" THEN <<"pr">>
    ELSE << >>
PositionTokens(tm, p) ==
    [i \in 1..Len(defensive_positions[tm][p]) |->
        pos_strings[defensive_positions[tm][p][i].n + 1]]

\* C23: the position string stored for a player of a game is the
\* hyphen-joined list of the tokens of the player's dline position codes in
\* file order, prefixed by ph (pr) iff the first line naming the player in
\* the game is a pinch-hitter (pinch-runner) line; a player who pinch-hit
\* after playing a field position gets no prefix.
C23_PositionString ==
    [][SealsGame =>
          \A tm \in Sides : \A p \in PlayerIds :
              ld_game.appearances[tm][p] # << >> =>
                  \E row \in StoredRows :
                      /\ row.kind = "defense"
                      /\ row.pid = p /\ row.road = (tm = "road")
                      /\ row.position_list =
                            Hyphenated(FirstAppearance(tm, p) \o PositionTokens(tm, p))]_vars

\* ---------------------------------------------------- properties: SpecBox
RECURSIVE JoinSemicolon(_)
JoinSemicolon(texts) ==
    IF Len(texts) = 0 THEN ""
    ELSE IF Len(texts) = 1 THEN texts[1].body
    ELSE texts[1].body \o ";" \o JoinSemicolon(Tail(texts))

\* C24: the comment a printed box carries is the texts of all the com
\* records of its game in file order joined by ";" (the quotes enclosing a
\* text set aside): none is lost or overwritten by a later one, and a game
\* without com records has an empty comment.
C24_CommentsJoined ==
    \A g \in 1..Len(box_file) :
        box_file[g].notes = JoinSemicolon(en_history[g].coms)

\* the records of game g in the file, of one type
VersionAt(g) ==
    CHOOSE i \in 1..Len(efile) :
        /\ efile[i].type = "version"
        /\ Cardinality({j \in 1..i : efile[j].type = "version"}) = g
GameEnd(g) == IF g < Len(en_history) THEN VersionAt(g + 1) - 1 ELSE Len(efile)
IsHpline(rec) == rec.type = "event" /\ rec.sub = "hpline"
Hplines(g) == SelectSeq(SubSeq(efile, VersionAt(g) + 1, GameEnd(g)), IsHpline)
WrittenFor(g, side) ==
    LET Names(rec) == rec.side = side IN SelectSeq(Hplines(g), Names)
EnteredFor(g, tm) ==
    LET Bats(entry) == entry.tm = tm IN SelectSeq(en_history[g].hbp, Bats)
SideOf(tm) == IF tm = "road" THEN ROAD_ID ELSE HOME_ID
GameWritten(g) == g < Len(en_history) \/ en_pc = "idle"

\* C26: a hit batter entered for a batter of team T is written as an hpline
\* record that names the side of T's opponent and holds the pitcher's id
\* and then the batter's; the box generator files each such record under
\* team T as batter:pitcher, so that a printed box lists for each team the
\* hit batters entered for it, in order, ids unchanged.
C26_HitBatterRoundTrip ==
    /\ \A g \in 1..Len(en_history) : GameWritten(g) =>
          \A tm \in Sides :
              WrittenFor(g, SideOf(Other(tm))) =
                  [k \in 1..Len(EnteredFor(g, tm)) |->
                      EventRecord("hpline", SideOf(Other(tm)),
                          <<EnteredFor(g, tm)[k].pitcher, EnteredFor(g, tm)[k].batter>>)]
    /\ \A g \in 1..Len(box_file) : \A tm \in Sides :
          box_file[g].hbp[tm] =
              [k \in 1..Len(EnteredFor(g, tm)) |->
                  EnteredFor(g, tm)[k].batter \o ":" \o EnteredFor(g, tm)[k].pitcher]

\* a printed box lists hit batters of both teams, one hit by another player
C26_Witness ==
    \E g \in 1..Len(box_file) :
        /\ box_file[g].hbp["road"] # << >>
        /\ box_file[g].hbp["home"] # << >>
        /\ \E k \in 1..Len(en_history[g].hbp) :
              en_history[g].hbp[k].pitcher # en_history[g].hbp[k].batter

\* ---------------------------------------------------- properties: SpecLines
LoadedLine(tm) == ld_game.scored[tm][1]
TeamRuns(tm) == IF tm = "road" THEN game_info.road_team_runs ELSE game_info.home_team_runs

\* C25 as stated: once the loader has taken a line record of a side, it
\* holds for that side the sum of the record's per-inning runs and, as the
\* inning count, the number of innings of that record; for the road side
\* and the home side alike.
C25_TotalAndInnings ==
    ld_pc = "reading" =>
        \A tm \in Sides :
            ld_game.scored[tm] # << >> =>
                /\ TeamRuns(tm) = IntegerColumn(SeqSum(LoadedLine(tm)))
                /\ game_info.innings = IntegerColumn(Len(LoadedLine(tm)))

\* C25, amended: once the loader has taken a line record of a side, it holds
\* for that side the sum of the record's per-inning runs; the one inning
\* count of the game is the number of innings of the road side's record, and
\* a record of the home side leaves it as it was.
C25_RoadInnings ==
    ld_pc = "reading" =>
        /\ \A tm \in Sides :
              ld_game.scored[tm] # << >> =>
                  TeamRuns(tm) = IntegerColumn(SeqSum(LoadedLine(tm)))
        /\ game_info.innings =
              IF ld_game.scored["road"] # << >>
              THEN IntegerColumn(Len(LoadedLine("road")))
              ELSE NULL

\* both sides have a line record, the home side's the longer one
C25_Witness ==
    /\ ld_pc = "reading"
    /\ ld_game.scored["road"] # << >>
    /\ ld_game.scored["home"] # << >>
    /\ Len(LoadedLine("home")) > Len(LoadedLine("road"))
    /\ SeqSum(LoadedLine("home")) > 0

\* the validator keeps the sum and the number of innings of the latest line
\* record of each side
ValidatorLineCounts ==
    cc_pc = "reading" =>
        \A tm \in Sides :
            game.scored[tm] # << >> =>
                /\ linescore_total[tm] = SeqSum(game.scored[tm][1])
                /\ linescore_innings[tm] = Len(game.scored[tm][1])

\* ------------------------------------------ properties: reported totals
\* C27: when a validated game has no teamstat record of either side, the
\* comparison of the player sums with the reported team totals is skipped:
\* no team-vs-player mismatch is reported for it, whatever its player lines
\* hold (here: counts only, no MISSING and no malformed value).
C27_NoTeamstatNoMismatch ==
    (/\ Validated
     /\ \A tm \in Sides : sealed.game.reported[tm] = << >>
     /\ \A tm \in Sides : \A k \in TeamKeys : AllCounts(tm, k)) =>
        \A tm \in Sides : \A k \in TeamKeys : TeamMismatchesFor(tm, k) = {}

\* ------------------------------------------- properties: per-line checks
\* the step takes a batting line of side tm / a pitching line of side tm
TakesBline(tm) == Len(game'.contrib[tm]["AB"]) = Len(game.contrib[tm]["AB"]) + 1
TakesPline(tm) == Len(game'.pitched[tm]["Outs"]) = Len(game.pitched[tm]["Outs"]) + 1
Latest(values) == values[Len(values)]
Recorded(v) == v # MISSING

\* C28: a batting line gets the "more Hits than AB" diagnostic iff its hits
\* and its at-bats are both recorded (not MISSING) and the hits exceed the
\* at-bats; a line whose at-bats or hits are MISSING never gets it.
C28_MoreHitsThanAB ==
    [][\A tm \in Sides :
          TakesBline(tm) =>
              LET ab == Latest(game'.contrib[tm]["AB"])
                  h == Latest(game'.contrib[tm]["Hits"])
              IN  (\E d \in printed' : d.kind = "ERROR_HITS_GT_AB" /\ d.tm = tm)
                      <=> (Recorded(ab) /\ Recorded(h) /\ h > ab)]_vars

\* the same for a pitching line: "more Strikeouts than Outs" iff both are
\* recorded and the strikeouts exceed the outs
MoreStrikeoutsThanOuts ==
    [][\A tm \in Sides :
          TakesPline(tm) =>
              LET outs == Latest(game'.pitched[tm]["Outs"])
                  strikeouts == Latest(game'.pitched[tm]["Strikeouts"])
              IN  (\E d \in printed' : d.kind = "ERROR_SO_GT_OUTS" /\ d.tm = tm)
                      <=> (Recorded(outs) /\ Recorded(strikeouts) /\ strikeouts > outs)]_vars

\* --------------------------------------- properties: sums and counters
\* the sums and counters of the table being aggregated
Aggregating == sp_pc \in {"batting_player", "pitching_player"}
Sums == IF sp_pc = "batting_player" THEN m_batting_stats ELSE m_pitching_stats
Counters ==
    IF sp_pc = "batting_player" THEN m_batting_stats_counters
    ELSE m_pitching_stats_counters

\* C29: while the game rows of one player are aggregated, for every stat
\* the count of games with a value lies between 0 and the count of games,
\* the sum is not negative, and the count of games is the number of rows
\* consumed so far; when the aggregation of a player starts all sums and
\* counters are zero.
C29_SumsAndCounters ==
    Aggregating =>
        /\ \A stat \in DOMAIN Sums :
              /\ 0 <= Counters[stat] /\ Counters[stat] <= Counters["games"]
              /\ Sums[stat] >= 0
        /\ Counters["games"] = Len(sp_lines)
        /\ Sums["games"] = Len(sp_lines)
        /\ sp_lines = << >> =>
              \A stat \in DOMAIN Sums : Sums[stat] = 0 /\ Counters[stat] = 0

\* a later player of the batting table, MaxLines rows in, with a stat that
\* one of the rows lacks
C29_Witness ==
    /\ sp_pc = "batting_player"
    /\ count >= 2
    /\ Len(sp_lines) = MaxLines
    /\ \E stat \in DOMAIN Sums :
          /\ Counters[stat] > 0 /\ Counters[stat] < Counters["games"]
          /\ Sums[stat] > 0

\* ------------------------------------------------ properties: row widths
\* the latest step wrote the row of a player to both files
RowWritten ==
    /\ sp_pc \in {"batting", "pitching"}
    /\ Len(output_file) = 1 /\ Len(counters_file) = 1
    /\ sp_lines # << >>
HeaderOfTable == IF sp_pc = "batting" THEN BattingHeader ELSE PitchingHeader

\* C30: the row of a player in the stats file and the row in the counters
\* file have the same number of columns, one per column of the header, for
\* the batting and the pitching table, also when a stat has a value in none
\* of the player's games (every value of the rows a count or MISSING).
C30_RowsAligned ==
    (/\ RowWritten
     /\ \A i \in 1..Len(sp_lines) : \A stat \in DOMAIN sp_lines[i].stats :
            sp_lines[i].stats[stat] >= MISSING) =>
        /\ Len(output_file[1]) = Len(HeaderOfTable)
        /\ Len(counters_file[1]) = Len(output_file[1])

====
